---------------------------- MODULE Spec2Model ----------------------------
(***************************************************************************)
(* Rating & Screening Engine of MarketAlgo202511 (src/ibd_screeners.py).   *)
(*                                                                         *)
(* The engine reads a market-data store (price bars, precomputed ratings,  *)
(* company profiles, EPS components) and evaluates six screeners.  A       *)
(* screener is a loop over tickers; one loop iteration is one action.      *)
(*                                                                         *)
(* Numbers.  Python floats are modelled as exact rationals [n, d] with     *)
(* d > 0; an optional value (Python None) is the empty tuple, a present    *)
(* value v the one-element tuple <<v>>.                                    *)
(***************************************************************************)
EXTENDS Integers, Sequences, FiniteSets, TLC

VARIABLES
    db,                \* the external store: tickers, prices, ratings, profiles, eps
    pc,                \* "idle", "ensure", "start", "loop", "ranked", "done", "write"
    op,                \* the operation the caller invoked: a screener name or "run_all"
    todo,              \* screeners still to run in this invocation
    iter,              \* the collection the current loop iterates (tickers_list / all_ratings)
    idx,               \* position of the current loop in iter
    passed,            \* the list `passed` of the screener that ran last
    performance_data,  \* screener_momentum_97: ordered dict ticker -> 1m/3m/6m
    ranks,             \* screener_momentum_97: rank_1m, rank_3m, rank_6m
    screener_results,  \* run_all_screeners: ordered dict name -> list
    returned,          \* what the last finished invocation gave its caller
    calls,             \* data-access calls issued by the last step
    db_failed,         \* history: a data-access call raised during this invocation
    upstream,          \* history: "fetched" once this invocation asked the upstream provider
    first_result,      \* history: the first screener result obtained on this snapshot
    debug_mode,        \* the environment: IBD_DEBUG is 'true'
    args,              \* the arguments of a calculator that is called on its own
    result,            \* what that calculator returned
    attempt,           \* _retry_api_call: the loop variable
    delay              \* _retry_api_call: the next sleep, in seconds

vars == <<db, pc, op, todo, iter, idx, passed, performance_data, ranks,
          screener_results, returned, calls, db_failed, upstream, first_result,
          debug_mode, args, result, attempt, delay>>

-----------------------------------------------------------------------------
(* Optional values and rationals *)

None == <<>>

Some(x) == <<x>>

Get(o) == o[1]

Rat(num, den) == [n |-> num, d |-> den]

RInt(k) == Rat(k, 1)

RLt(a, b) == a.n * b.d < b.n * a.d

RLe(a, b) == a.n * b.d <= b.n * a.d

RGe(a, b) == RLe(b, a)

RGt(a, b) == RLt(b, a)

REq(a, b) == a.n * b.d = b.n * a.d

RECURSIVE GCD(_, _)
GCD(a, b) == IF b = 0 THEN a ELSE GCD(b, a % b)

Abs(x) == IF x < 0 THEN -x ELSE x

\* num / den in lowest terms with a positive denominator (den # 0)
Div(num, den) ==
    LET g == GCD(Abs(num), Abs(den))
        sg == IF den < 0 THEN -1 ELSE 1
    IN  Rat(sg * (num \div g), sg * (den \div g))

RSub(a, b) == Div(a.n * b.d - b.n * a.d, a.d * b.d)

RDiv(a, b) == Div(a.n * b.d, a.d * b.n)

RMulInt(a, k) == LET r == Div(a.n, a.d) IN Div(r.n * k, r.d)

RDivInt(a, k) == LET r == Div(a.n, a.d) IN Div(r.n, r.d * k)

\* (a - b) / b * 100 on floats, b # 0
PctChange(a, b) == RMulInt(RDiv(RSub(a, b), b), 100)

RECURSIVE SumRange(_, _, _)
SumRange(s, lo, hi) ==
    IF hi < lo THEN 0
    ELSE IF hi = lo THEN s[lo]
    ELSE LET mid == (lo + hi) \div 2
         IN  SumRange(s, lo, mid) + SumRange(s, mid + 1, hi)

\* s[-k:] of Python for k >= 1: the last k elements (all of s when it is shorter)
\* mutant: df.head(k)
FirstN(s, k) == IF Len(s) <= k THEN s ELSE SubSeq(s, 1, k)

LastN(s, k) == IF Len(s) <= k THEN s ELSE SubSeq(s, Len(s) - k + 1, Len(s))

\* s[-k] of Python, 1 <= k <= Len(s)
FromEnd(s, k) == s[Len(s) - k + 1]

Column(df, name) == [i \in 1..Len(df) |-> df[i][name]]

\* the float stored in a price column: the integer `close` (or `open`) of a
\* bar counts units of 1/unit
PriceAt(df, k, column) == Rat(FromEnd(df, k)[column], FromEnd(df, k).unit)

\* IEEE not-a-number, the 0.0 / 0.0 of numpy floats; every comparison with it
\* is false
NaN == [n |-> 0, d |-> 0]

\* a < b on floats of which a may be not-a-number
FloatLt(a, b) == a # NaN /\ RLt(a, b)

\* np.mean(s[-k:]) of an integer array with Len(s) >= k >= 1
MeanLast(s, k) == Div(SumRange(s, Len(s) - k + 1, Len(s)), k)

Range(s) == {s[i] : i \in 1..Len(s)}

-----------------------------------------------------------------------------
(* The data-access interface (ibd_database.IBDDatabase, spec section 6).    *)
(* db.prices[t] is the stored series of t, oldest first, <<>> when t has no *)
(* rows; db.ratings is the ordered mapping ticker -> rating as a sequence.  *)

BENCHMARK == "SPY"

\* priceHistory(ticker, lookbackDays): the most recent `days` bars, oldest first
get_price_history(ticker, days) ==
    IF db.prices[ticker] = <<>> THEN None ELSE Some(LastN(db.prices[ticker], days))

get_all_tickers == db.tickers

get_all_ratings == db.ratings

get_rating(ticker) ==
    LET hits == SelectSeq(db.ratings, LAMBDA r : r.ticker = ticker)
    IN  IF hits = <<>> THEN None ELSE Some(hits[1])

get_company_profile(ticker) == db.profiles[ticker]

get_all_eps_components == db.eps

-----------------------------------------------------------------------------
(* Indicator calculators *)

\* the condition under which get_moving_averages has data to work on
ma_has_data(prices_df) == prices_df # None /\ Len(Get(prices_df)) >= 200

\* mutant: the anchors are one bar older (close[-22], close[-64], close[-127])
get_price_metrics_older_anchor(ticker) ==
    LET prices_df == get_price_history(ticker, 180)
    IN  IF prices_df = None \/ Len(Get(prices_df)) < 2 THEN None
        ELSE
        LET close == Column(Get(prices_df), "close")
            open_price == Column(Get(prices_df), "open")
            last == PriceAt(Get(prices_df), 1, "close")
            trailing(k) == IF Len(close) >= k + 1 /\ FromEnd(close, k + 1) # 0
                           THEN Some(PctChange(last, PriceAt(Get(prices_df), k + 1, "close")))
                           ELSE None
        IN  Some([price |-> last,
                  pct_change_1d |-> IF FromEnd(close, 2) # 0
                                    THEN PctChange(last, PriceAt(Get(prices_df), 2, "close"))
                                    ELSE RInt(0),
                  change_from_open |-> IF FromEnd(open_price, 1) # 0
                                       THEN PctChange(last, PriceAt(Get(prices_df), 1, "open"))
                                       ELSE RInt(0),
                  pct_1m |-> trailing(21),
                  pct_3m |-> trailing(63),
                  pct_6m |-> trailing(126)])

get_price_metrics(ticker) ==
    LET prices_df == get_price_history(ticker, 180)
    IN  IF prices_df = None \/ Len(Get(prices_df)) < 2 THEN None
        ELSE
        LET close == Column(Get(prices_df), "close")
            open_price == Column(Get(prices_df), "open")
            last == PriceAt(Get(prices_df), 1, "close")
            trailing(k) == IF Len(close) >= k /\ FromEnd(close, k) # 0
                           THEN Some(PctChange(last, PriceAt(Get(prices_df), k, "close")))
                           ELSE None
        IN  Some([price |-> last,
                  pct_change_1d |-> IF FromEnd(close, 2) # 0
                                    THEN PctChange(last, PriceAt(Get(prices_df), 2, "close"))
                                    ELSE RInt(0),
                  change_from_open |-> IF FromEnd(open_price, 1) # 0
                                       THEN PctChange(last, PriceAt(Get(prices_df), 1, "open"))
                                       ELSE RInt(0),
                  pct_1m |-> trailing(21),
                  pct_3m |-> trailing(63),
                  pct_6m |-> trailing(126)])

get_volume_metrics(ticker) ==
    LET prices_df == get_price_history(ticker, 100)
    IN  IF prices_df = None \/ Len(Get(prices_df)) < 90 THEN None
        ELSE
        LET volume == Column(Get(prices_df), "volume")
            avg_volume_50 == MeanLast(volume, 50)
            avg_volume_90 == MeanLast(volume, 90)
            current_volume == RInt(FromEnd(volume, 1))
            usable == avg_volume_50.n > 0
        IN  Some([avg_vol_50 |-> RDivInt(avg_volume_50, 1000),
                  avg_vol_90 |-> RDivInt(avg_volume_90, 1000),
                  current_volume |-> RDivInt(current_volume, 1000),
                  vol_change_pct |-> IF usable
                                     THEN PctChange(current_volume, avg_volume_50)
                                     ELSE RInt(0),
                  rel_volume |-> IF usable
                                 THEN RDiv(current_volume, avg_volume_50)
                                 ELSE RInt(0)])

get_moving_averages(ticker) ==
    LET prices_df == get_price_history(ticker, 250)
    IN  IF ~ma_has_data(prices_df) THEN None
        ELSE
        LET close == Column(Get(prices_df), "close")
            unit == FromEnd(Get(prices_df), 1).unit
            ma(k) == IF Len(close) >= k THEN Some(RDivInt(MeanLast(close, k), unit))
                     ELSE None
        IN  Some([ma10 |-> ma(10), ma21 |-> ma(21), ma50 |-> ma(50),
                  ma150 |-> ma(150), ma200 |-> ma(200),
                  price |-> PriceAt(Get(prices_df), 1, "close")])

\* with a 50-day average of 0 the closes of the last 50 bars are all 0 (no
\* close is negative) and the numpy division 0.0 / 0.0 gives nan, no exception
get_price_vs_50ma(ticker) ==
    LET ma_data == get_moving_averages(ticker)
    IN  IF ma_data = None \/ Get(ma_data).ma50 = None THEN None
        ELSE IF Get(Get(ma_data).ma50).n = 0 THEN Some(NaN)
        ELSE Some(PctChange(Get(ma_data).price, Get(Get(ma_data).ma50)))

\* pd.merge(..., on='date', how='inner') of two series without duplicate dates:
\* the benchmark rows whose date the target has, in benchmark order
MergeOnDate(benchmark_df, target_df) ==
    LET target_dates == {target_df[i].date : i \in 1..Len(target_df)}
        keep == SelectSeq(benchmark_df, LAMBDA b : b.date \in target_dates)
        target_close(d) ==
            target_df[CHOOSE i \in 1..Len(target_df) : target_df[i].date = d].close
        target_unit == target_df[1].unit
    IN  [i \in 1..Len(keep) |->
            [date |-> keep[i].date, benchmark_close |-> keep[i].close,
             benchmark_unit |-> keep[i].unit,
             target_close |-> target_close(keep[i].date),
             target_unit |-> target_unit]]

\* mutant: the zero check looks at every joined row, not the retained ones
calculate_relative_strength_any_joined_zero(benchmark_prices, target_prices, days) ==
    IF benchmark_prices = None \/ target_prices = None THEN None
    ELSE
    LET merged == MergeOnDate(Get(benchmark_prices), Get(target_prices))
        tail == LastN(merged, days)
    IN  IF Len(merged) = 0 THEN None
        ELSE IF Len(tail) < days THEN None
        ELSE IF \E i \in 1..Len(merged) : merged[i].benchmark_close = 0 THEN None
        ELSE Some([i \in 1..Len(tail) |->
                      Rat(tail[i].target_close * tail[i].benchmark_unit,
                          tail[i].benchmark_close * tail[i].target_unit)])

calculate_relative_strength(benchmark_prices, target_prices, days) ==
    IF benchmark_prices = None \/ target_prices = None THEN None
    ELSE
    LET merged == MergeOnDate(Get(benchmark_prices), Get(target_prices))
        tail == LastN(merged, days)
    IN  IF Len(merged) = 0 THEN None
        ELSE IF Len(tail) < days THEN None
        ELSE IF \E i \in 1..Len(tail) : tail[i].benchmark_close = 0 THEN None
        ELSE Some([i \in 1..Len(tail) |->
                      Rat(tail[i].target_close * tail[i].benchmark_unit,
                          tail[i].benchmark_close * tail[i].target_unit)])

\* mutant: the digits after the second decimal are dropped
Round2Truncating(x) == Div((x.n * 100) \div x.d, 100)

\* round(x, 2) of a non-negative x: the nearest multiple of 1/100, ties to even
Round2(x) ==
    LET scaled == x.n * 100
        q == scaled \div x.d
        r2 == 2 * (scaled % x.d)
        k == IF r2 > x.d \/ (r2 = x.d /\ q % 2 = 1) THEN q + 1 ELSE q
    IN  Div(k, 100)

\* mutant: rs_values < latest_rs
calculate_rs_sts_percentile_strict(rs_values) ==
    IF rs_values = None \/ Len(Get(rs_values)) = 0 THEN RInt(0)
    ELSE
    LET v == Get(rs_values)
        latest_rs == v[Len(v)]
        count == Cardinality({i \in 1..Len(v) : RLt(v[i], latest_rs)})
    IN  Round2(RMulInt(Div(count, Len(v)), 100))

calculate_rs_sts_percentile(rs_values) ==
    IF rs_values = None \/ Len(Get(rs_values)) = 0 THEN RInt(0)
    ELSE
    LET v == Get(rs_values)
        latest_rs == v[Len(v)]
        count == Cardinality({i \in 1..Len(v) : RLe(v[i], latest_rs)})
    IN  Round2(RMulInt(Div(count, Len(v)), 100))

\* mutant: 24 joined dates are enough
get_rs_sts_percentile_24_days(ticker) ==
    LET benchmark_prices == get_price_history(BENCHMARK, 30)
        ticker_prices == get_price_history(ticker, 30)
    IN  IF benchmark_prices = None THEN None
        ELSE IF ticker_prices = None THEN None
        ELSE IF Len(Get(benchmark_prices)) < 25 \/ Len(Get(ticker_prices)) < 25 THEN None
        ELSE
        LET rs_values == calculate_relative_strength(benchmark_prices, ticker_prices, 24)
        IN  IF rs_values = None THEN None
            ELSE Some(calculate_rs_sts_percentile(rs_values))

get_rs_sts_percentile(ticker) ==
    LET benchmark_prices == get_price_history(BENCHMARK, 30)
        ticker_prices == get_price_history(ticker, 30)
    IN  IF benchmark_prices = None THEN None
        ELSE IF ticker_prices = None THEN None
        ELSE IF Len(Get(benchmark_prices)) < 25 \/ Len(Get(ticker_prices)) < 25 THEN None
        ELSE
        LET rs_values == calculate_relative_strength(benchmark_prices, ticker_prices, 25)
        IN  IF rs_values = None THEN None
            ELSE Some(calculate_rs_sts_percentile(rs_values))

\* mutant: a price exactly 5% under the 52-week high is not a new high
check_rs_line_new_high_strict(ticker) ==
    LET rating == get_rating(ticker)
    IN  IF rating = None \/ Get(rating).price_vs_52w_high = None THEN FALSE
        ELSE Get(Get(rating).price_vs_52w_high) > -5

check_rs_line_new_high(ticker) ==
    LET rating == get_rating(ticker)
    IN  IF rating = None \/ Get(rating).price_vs_52w_high = None THEN FALSE
        ELSE Get(Get(rating).price_vs_52w_high) >= -5

-----------------------------------------------------------------------------
(* Market data the store may hold.  A series is described by its length n   *)
(* and its bars counted back from the most recent one (j = 0): the closes   *)
(* fall by `step` per bar going back from `base`, except the last close,    *)
(* the previous close, `peaks` bars above the last close, and the closes    *)
(* listed in `zeros`; the dates fall by `dstep` per bar from 1000 - doff.   *)
(* Prices count units of 1/unit; the volume is vlast, vprev, then vol for   *)
(* the bars up to 49 back and vold for the older ones.                      *)

MaxUniverse == 3

Up == [n |-> 250, base |-> 300, step |-> 1, last |-> 320, prev |-> 300,
       zeros |-> {}, peaks |-> 0, vol |-> 122000, vprev |-> 122000,
       vlast |-> 147000, open_last |-> 310, dstep |-> 1, doff |-> 0,
       unit |-> 1, vold |-> 122000]

\* every Up on Volume indicator exactly on its threshold
Edge == [n |-> 250, base |-> 8, step |-> 0, last |-> 10, prev |-> 10,
         zeros |-> {}, peaks |-> 5, vol |-> 100000, vprev |-> 80000,
         vlast |-> 120000, open_last |-> 10, dstep |-> 1, doff |-> 0,
         unit |-> 1, vold |-> 100000]

Bench == [n |-> 30, base |-> 100, step |-> 0, last |-> 100, prev |-> 100,
          zeros |-> {}, peaks |-> 0, vol |-> 1000000, vprev |-> 1000000,
          vlast |-> 1000000, open_last |-> 100, dstep |-> 1, doff |-> 0,
          unit |-> 1, vold |-> 1000000]

MkSeries(p) ==
    [i \in 1..p.n |->
        LET j == p.n - i
            c == IF j \in p.zeros THEN 0
                 ELSE IF j = 0 THEN p.last
                 ELSE IF j = 1 THEN p.prev
                 ELSE IF j <= 1 + p.peaks THEN p.last + 50
                 ELSE p.base - p.step * j
        IN  [date |-> 1000 - p.doff - j * p.dstep,
             open |-> IF j = 0 THEN p.open_last ELSE c,
             close |-> c,
             unit |-> p.unit,
             volume |-> IF j = 0 THEN p.vlast ELSE IF j = 1 THEN p.vprev
                        ELSE IF j >= 50 THEN p.vold ELSE p.vol]]

Technology == <<"T", "e", "c", "h">>

Healthcare == <<"H", "e", "a", "l", "t", "h", "c", "a", "r", "e">>

MedicalDevices == <<"M", "E", "D", "I", "C", "A", "L", " ", "d", "e", "v">>

MkRating(rs, comp, ad, hi) ==
    [rs_rating |-> rs, comp_rating |-> comp, ad_rating |-> ad, price_vs_52w_high |-> hi]

MkProfile(sector, cap) ==
    Some([sector |-> sector, industry |-> Some("Software"), market_cap |-> cap])

MkEps(g) == Some([eps_growth_last_qtr |-> g])

\* a ticker that satisfies every screener's thresholds
Strong == [series |-> Some(Up),
           rating |-> Some(MkRating(Some(99), Some(90), Some("A"), Some(-2))),
           profile |-> MkProfile(Some(Technology), Some(300000000)),
           eps |-> MkEps(Some(120))]

\* a second passing ticker, with lower momentum than Strong
Strong2 == [Strong EXCEPT !.series = Some([Up EXCEPT !.last = 316])]

\* a rated ticker with enough history that passes no rating-based screener
Weak == [series |-> Some([Up EXCEPT !.n = 130, !.last = 301]),
         rating |-> Some(MkRating(Some(50), Some(40), Some("D"), Some(-30))),
         profile |-> MkProfile(Some(Technology), Some(300000000)),
         eps |-> MkEps(Some(5))]

\* a ticker that is in the ticker list only: no bars, no rating, no profile
Bare == [series |-> None, rating |-> None, profile |-> None, eps |-> None]

\* every Up on Volume condition exactly on its boundary
AtEdge == [series |-> Some(Edge),
           rating |-> Some(MkRating(Some(80), Some(80), Some("C"), Some(-5))),
           profile |-> MkProfile(Some(Technology), Some(250000000)),
           eps |-> MkEps(Some(20))]

WithSeries(c, p) == [c EXCEPT !.series = Some(p)]

WithRating(c, r) == [c EXCEPT !.rating = Some(r)]

\* AtEdge with one Up on Volume condition just missed
JustBelow ==
    { WithRating(AtEdge, MkRating(Some(79), Some(80), Some("C"), Some(-5))),
      WithRating(AtEdge, MkRating(Some(80), Some(80), Some("D"), Some(-5))),
      WithSeries(AtEdge, [Edge EXCEPT !.peaks = 6]),
      WithSeries(AtEdge, [Edge EXCEPT !.prev = 11, !.peaks = 4]),
      WithSeries(AtEdge, [Edge EXCEPT !.last = 9, !.prev = 9, !.open_last = 9]),
      WithSeries(AtEdge, [Edge EXCEPT !.vprev = 79999]),
      WithSeries(AtEdge, [Edge EXCEPT !.vprev = 80001, !.vlast = 119999]),
      [AtEdge EXCEPT !.profile = MkProfile(Some(Technology), Some(249999999))],
      [AtEdge EXCEPT !.eps = MkEps(Some(19))] }

\* Strong with one input missing
Missing ==
    { WithRating(Strong, MkRating(None, Some(90), Some("A"), Some(-2))),
      WithRating(Strong, MkRating(Some(99), None, Some("A"), Some(-2))),
      WithRating(Strong, MkRating(Some(99), Some(90), None, Some(-2))),
      WithRating(Strong, MkRating(Some(99), Some(90), Some("A"), None)),
      [Strong EXCEPT !.rating = None],
      [Strong EXCEPT !.profile = None],
      [Strong EXCEPT !.profile = MkProfile(Some(Technology), None)],
      [Strong EXCEPT !.profile = MkProfile(None, Some(300000000))],
      [Strong EXCEPT !.eps = None],
      [Strong EXCEPT !.eps = MkEps(None)],
      [Strong EXCEPT !.series = None] }

\* Strong with a shorter history, a zero close, or an excluded sector
Shaped ==
    { WithSeries(Strong, [Up EXCEPT !.n = 1]),
      WithSeries(Strong, [Up EXCEPT !.n = 24]),
      WithSeries(Strong, [Up EXCEPT !.n = 89]),
      WithSeries(Strong, [Up EXCEPT !.n = 125]),
      WithSeries(Strong, [Up EXCEPT !.n = 150]),
      WithSeries(Strong, [Up EXCEPT !.n = 199]),
      WithSeries(Strong, [Up EXCEPT !.n = 200]),
      WithSeries(Strong, [Up EXCEPT !.zeros = {1}]),
      WithSeries(Strong, [Up EXCEPT !.zeros = {20}]),
      WithSeries(Strong, [Up EXCEPT !.vol = 0, !.vprev = 0, !.vlast = 0]),
      WithSeries(Strong, [Up EXCEPT !.last = 312, !.prev = 300]),
      [Strong EXCEPT !.profile = MkProfile(Some(Healthcare), Some(300000000))],
      [Strong EXCEPT !.profile = MkProfile(Some(MedicalDevices), Some(300000000))] }

\* a one-dollar stock quoted in cents: up 4.17% on the day, above its open,
\* rsSTS% exactly 80, volume above every 4% Bullish Yesterday threshold
Penny == [n |-> 100, base |-> 90, step |-> 0, last |-> 100, prev |-> 96,
          zeros |-> {}, peaks |-> 5, vol |-> 100000, vprev |-> 100000,
          vlast |-> 150000, open_last |-> 99, dstep |-> 1, doff |-> 0,
          unit |-> 100, vold |-> 101000]

\* an unrated ticker that passes 4% Bullish Yesterday with its price exactly 1
BullEdge == [series |-> Some(Penny),
             rating |-> None,
             profile |-> MkProfile(Some(Technology), Some(300000000)),
             eps |-> None]

\* BullEdge with one 4% Bullish Yesterday condition just missed
BullBelow ==
    { WithSeries(BullEdge, [Penny EXCEPT !.last = 99, !.prev = 95, !.open_last = 98]),
      WithSeries(BullEdge, [Penny EXCEPT !.last = 104, !.prev = 100, !.open_last = 103]),
      WithSeries(BullEdge, [Penny EXCEPT !.open_last = 100]),
      WithSeries(BullEdge, [Penny EXCEPT !.vlast = 100000, !.vprev = 90000,
                                         !.vol = 90000, !.vold = 120000]),
      WithSeries(BullEdge, [Penny EXCEPT !.vlast = 150000, !.vprev = 150000,
                                         !.vol = 150000, !.vold = 150000]),
      WithSeries(BullEdge, [Penny EXCEPT !.vold = 98750]),
      WithSeries(BullEdge, [Penny EXCEPT !.peaks = 6]),
      WithSeries(BullEdge, [Penny EXCEPT !.n = 89]),
      [BullEdge EXCEPT !.profile = MkProfile(Some(Technology), Some(250000000))],
      [BullEdge EXCEPT !.profile = MkProfile(Some(Technology), None)],
      [BullEdge EXCEPT !.profile = None] }

\* every Healthy Chart Watchlist rating and the 50-day volume exactly on its
\* threshold, over a rising chart
HealthyEdge ==
    [series |-> Some([Up EXCEPT !.vol = 100000, !.vprev = 80000, !.vlast = 120000,
                                !.vold = 100000]),
     rating |-> Some(MkRating(Some(90), Some(80), Some("B"), Some(-5))),
     profile |-> None,
     eps |-> None]

\* HealthyEdge with one Healthy Chart Watchlist condition just missed
HealthyBelow ==
    { WithRating(HealthyEdge, MkRating(Some(89), Some(80), Some("B"), Some(-5))),
      WithRating(HealthyEdge, MkRating(Some(90), Some(79), Some("B"), Some(-5))),
      WithRating(HealthyEdge, MkRating(Some(90), Some(80), Some("C"), Some(-5))),
      WithRating(HealthyEdge, MkRating(Some(90), Some(80), Some("B"), Some(-6))),
      WithRating(HealthyEdge, MkRating(Some(90), Some(80), Some("B"), None)),
      WithSeries(HealthyEdge, [Up EXCEPT !.vol = 100000, !.vprev = 79999,
                                         !.vlast = 120000, !.vold = 100000]),
      WithSeries(HealthyEdge, [Up EXCEPT !.vol = 100000, !.vprev = 80000,
                                         !.vlast = 120000, !.vold = 100000,
                                         !.n = 199]),
      WithSeries(HealthyEdge, [Up EXCEPT !.vol = 100000, !.vprev = 80000,
                                         !.vlast = 120000, !.vold = 100000,
                                         !.step = 0, !.last = 300, !.prev = 300]) }

\* a flat chart: the price equals its 50-day average and rsSTS% is 100
Flat == [Up EXCEPT !.step = 0, !.last = 300, !.prev = 300, !.vol = 100000,
                   !.vprev = 80000, !.vlast = 120000, !.vold = 100000]

\* every Explosive EPS Growth condition but rsSTS% exactly on its threshold
EpsEdge == [series |-> Some(Flat),
            rating |-> Some(MkRating(Some(80), None, None, None)),
            profile |-> None,
            eps |-> MkEps(Some(100))]

\* EpsEdge with one Explosive EPS Growth condition just missed, and a chart
\* whose last 50 closes are all 0
EpsBelow ==
    { WithRating(EpsEdge, MkRating(Some(79), None, None, None)),
      [EpsEdge EXCEPT !.eps = MkEps(Some(99))],
      [EpsEdge EXCEPT !.eps = MkEps(None)],
      [EpsEdge EXCEPT !.eps = None],
      WithSeries(EpsEdge, [Flat EXCEPT !.vprev = 79999]),
      WithSeries(EpsEdge, [Flat EXCEPT !.last = 299]),
      WithSeries(EpsEdge, [Flat EXCEPT !.n = 199]),
      WithSeries(EpsEdge, [Flat EXCEPT !.n = 89]),
      WithSeries(EpsEdge, [Flat EXCEPT !.zeros = 0..49]) }

Variants ==
    {Strong, AtEdge, BullEdge, HealthyEdge, EpsEdge}
        \cup JustBelow \cup Missing \cup Shaped \cup BullBelow \cup HealthyBelow
        \cup EpsBelow

BenchmarkSeries ==
    { Some(Bench), Some([Bench EXCEPT !.n = 25]), Some([Bench EXCEPT !.n = 24]), None }

Symbols == <<"A", "B", "C", "D", "E", "F">>

Universe == SubSeq(Symbols, 1, MaxUniverse)

AllSymbols == Range(Symbols) \cup {BENCHMARK}

\* the tickers of seq in the opposite order
Reverse(seq) == [i \in 1..Len(seq) |-> seq[Len(seq) + 1 - i]]

\* the store holding configuration cfg[t] for each ticker t of the universe,
\* benchmark series bench, and the rated tickers in the order `order`
MkDb(cfg, bench, order) ==
    LET stored(t) == IF t = BENCHMARK THEN bench
                     ELSE IF t \in DOMAIN cfg THEN cfg[t].series ELSE None
        rated == SelectSeq(order, LAMBDA t : cfg[t].rating # None)
    IN  [tickers |-> Universe,
         prices |-> [t \in AllSymbols |->
                        IF stored(t) = None THEN <<>> ELSE MkSeries(Get(stored(t)))],
         ratings |-> [i \in 1..Len(rated) |->
                        [ticker |-> rated[i]] @@ Get(cfg[rated[i]].rating)],
         profiles |-> [t \in AllSymbols |->
                        IF t \in DOMAIN cfg THEN cfg[t].profile ELSE None],
         eps |-> [t \in AllSymbols |->
                        IF t \in DOMAIN cfg THEN cfg[t].eps ELSE None]]

\* a ranked ticker between Weak and Strong2 in momentum
Weak2 == WithSeries(Weak, [Up EXCEPT !.n = 130, !.last = 305])

\* universes: the first ticker takes every variant beside two weak neighbours,
\* or the first ticker is Strong and its neighbours vary (a second passing
\* ticker, a tie with the first one, a ticker without any data)
Configs ==
    LET others == Range(Universe) \ {"A"}
        with(a, f) == [t \in Range(Universe) |-> IF t = "A" THEN a ELSE f[t]]
        weak == [t \in others |-> IF t = "C" THEN Weak2 ELSE Weak]
        rest == { f \in [others -> {Strong2, Weak}] :
                    \A t \in others : t \notin {"B", "C"} => f[t] = Weak }
    IN  { with(a, weak) : a \in Variants }
        \cup { with(Strong, f) : f \in rest }
        \cup { with(Strong, [t \in others |-> IF t = "B" THEN Strong ELSE Bare]) }

Databases ==
    { MkDb(cfg, Some(Bench), Universe) : cfg \in Configs }
    \cup { MkDb(cfg, bench, order) :
             cfg \in { c \in Configs : c["A"] = Strong },
             bench \in BenchmarkSeries,
             order \in {Universe, Reverse(Universe)} }

-----------------------------------------------------------------------------
(* Strings as character sequences: str.lower() and the `in` substring test *)

UpperCase == <<"A", "B", "C", "D", "E", "F", "G", "H", "I", "J", "K", "L", "M",
               "N", "O", "P", "Q", "R", "S", "T", "U", "V", "W", "X", "Y", "Z">>

LowerCase == <<"a", "b", "c", "d", "e", "f", "g", "h", "i", "j", "k", "l", "m",
               "n", "o", "p", "q", "r", "s", "t", "u", "v", "w", "x", "y", "z">>

ToLower(str) ==
    [i \in 1..Len(str) |->
        IF \E k \in 1..Len(UpperCase) : UpperCase[k] = str[i]
        THEN LowerCase[CHOOSE k \in 1..Len(UpperCase) : UpperCase[k] = str[i]]
        ELSE str[i]]

Contains(sub, str) ==
    \E k \in 0..(Len(str) - Len(sub)) : SubSeq(str, k + 1, k + Len(sub)) = sub

-----------------------------------------------------------------------------
(* One loop iteration of a screener is a chain of stages.  A stage issues   *)
(* its data-access calls and then either skips the ticker (`continue`),     *)
(* raises inside the try block, or lets the chain go on.                    *)

PriceCall(ticker, days) == <<"get_price_history", ticker, days>>

RsCalls(ticker) == <<PriceCall(BENCHMARK, 30), PriceCall(ticker, 30)>>

Stage(stage_calls, skip) == [calls |-> stage_calls, skip |-> skip, raises |-> FALSE]

\* if rating['rs_rating'] is None or rating['rs_rating'] < threshold: continue
rs_rating_skip(rating, threshold) ==
    rating.rs_rating = None \/ Get(rating.rs_rating) < threshold

\* mutant: an absent rsSTS% is let through
rs_sts_skip_only_low(rs_sts) == rs_sts # None /\ RLt(Get(rs_sts), RInt(80))

\* if rs_sts is None or rs_sts < 80: continue
rs_sts_skip(rs_sts) == rs_sts = None \/ RLt(Get(rs_sts), RInt(80))

\* if price_metrics['pct_change_1d'] < 0: continue
upvol_change_skip(price_metrics) == RLt(price_metrics.pct_change_1d, RInt(0))

\* mutant: a price of exactly 10 is skipped too
upvol_price_skip_strict(price_metrics) == RLe(price_metrics.price, RInt(10))

\* if price_metrics['price'] < 10: continue
upvol_price_skip(price_metrics) == RLt(price_metrics.price, RInt(10))

\* mutant: a 1-day change of exactly 4 is let through
bullish_change_skip_loose(price_metrics) == RLt(price_metrics.pct_change_1d, RInt(4))

\* if price_metrics['pct_change_1d'] <= 4: continue
bullish_change_skip(price_metrics) == RLe(price_metrics.pct_change_1d, RInt(4))

\* if not profile or profile['market_cap'] is None: continue
profile_skip(profile) == profile = None \/ Get(profile).market_cap = None

\* the sector test of Top 2% RS: only a present profile is examined
sector_skip(profile) ==
    /\ profile # None
    /\ LET sector == ToLower(Get(Get(profile).sector))
       IN  \/ Contains(<<"h", "e", "a", "l", "t", "h", "c", "a", "r", "e">>, sector)
           \/ Contains(<<"m", "e", "d", "i", "c", "a", "l">>, sector)

\* eps_components[ticker]['eps_growth_last_qtr'] is None or below the threshold
eps_skip(eps_components, ticker, threshold) ==
    LET eps_growth == Get(eps_components[ticker]).eps_growth_last_qtr
    IN  eps_growth = None \/ Get(eps_growth) < threshold

\* ma_data['10ma'] > ma_data['21ma'] > ma_data['50ma']
short_trend(ma_data) ==
    RGt(Get(ma_data.ma10), Get(ma_data.ma21)) /\ RGt(Get(ma_data.ma21), Get(ma_data.ma50))

\* ma_data['50ma'] > ma_data['150ma'] > ma_data['200ma']
long_trend(ma_data) ==
    RGt(Get(ma_data.ma50), Get(ma_data.ma150)) /\ RGt(Get(ma_data.ma150), Get(ma_data.ma200))

\* everything a loop iteration may compute for one ticker
Indicators(ticker) ==
    [rs_sts |-> get_rs_sts_percentile(ticker),
     price_metrics |-> get_price_metrics(ticker),
     vol_metrics |-> get_volume_metrics(ticker),
     ma_data |-> get_moving_averages(ticker),
     price_vs_50ma |-> get_price_vs_50ma(ticker),
     profile |-> get_company_profile(ticker),
     eps_components |-> get_all_eps_components,
     rs_line_new_high |-> check_rs_line_new_high(ticker)]

explosive_eps_growth_stage(ticker, rating, m, i) ==
    CASE i = 1 -> Stage(<<>>, rs_rating_skip(rating, 80))
      [] i = 2 -> Stage(RsCalls(ticker), rs_sts_skip(m.rs_sts))
      [] i = 3 -> Stage(<< <<"get_all_eps_components">> >>,
                        m.eps_components[ticker] = None)
      [] i = 4 -> Stage(<<>>, eps_skip(m.eps_components, ticker, 100))
      [] i = 5 -> Stage(<<PriceCall(ticker, 100)>>,
                        m.vol_metrics = None
                          \/ RLt(Get(m.vol_metrics).avg_vol_50, RInt(100)))
      [] i = 6 -> Stage(<<PriceCall(ticker, 250)>>,
                        m.price_vs_50ma = None
                          \/ FloatLt(Get(m.price_vs_50ma), RInt(0)))

up_on_volume_stage(ticker, rating, m, i) ==
    CASE i = 1 -> Stage(<<>>, rs_rating_skip(rating, 80))
      [] i = 2 -> Stage(RsCalls(ticker), rs_sts_skip(m.rs_sts))
      [] i = 3 -> Stage(<<>>, rating.ad_rating \notin {Some("A"), Some("B"), Some("C")})
      [] i = 4 -> Stage(<<PriceCall(ticker, 180)>>, m.price_metrics = None)
      [] i = 5 -> Stage(<<>>, upvol_change_skip(Get(m.price_metrics)))
      [] i = 6 -> Stage(<<>>, upvol_price_skip(Get(m.price_metrics)))
      [] i = 7 -> Stage(<<PriceCall(ticker, 100)>>, m.vol_metrics = None)
      [] i = 8 -> Stage(<<>>, RLt(Get(m.vol_metrics).avg_vol_50, RInt(100)))
      [] i = 9 -> Stage(<<>>, RLt(Get(m.vol_metrics).vol_change_pct, RInt(20)))
      [] i = 10 -> Stage(<< <<"get_company_profile", ticker>> >>, profile_skip(m.profile))
      [] i = 11 -> Stage(<<>>, RLt(Div(Get(Get(m.profile).market_cap), 1000000),
                                   RInt(250)))
      [] i = 12 -> Stage(<< <<"get_all_eps_components">> >>,
                         m.eps_components[ticker] = None)
      [] i = 13 -> Stage(<<>>, eps_skip(m.eps_components, ticker, 20))

top_2_percent_rs_stage(ticker, rating, m, i) ==
    CASE i = 1 -> Stage(<<>>, rs_rating_skip(rating, 98))
      [] i = 2 -> Stage(RsCalls(ticker), rs_sts_skip(m.rs_sts))
      [] i = 3 -> Stage(<<PriceCall(ticker, 250)>>, m.ma_data = None)
      [] i = 4 -> Stage(<<>>, ~short_trend(Get(m.ma_data)))
      [] i = 5 -> Stage(<<PriceCall(ticker, 100)>>, m.vol_metrics = None)
      [] i = 6 -> Stage(<<>>, RLt(Get(m.vol_metrics).avg_vol_50, RInt(100)))
      [] i = 7 -> Stage(<<>>, RLt(Get(m.vol_metrics).current_volume, RInt(100)))
      [] i = 8 -> IF m.profile # None /\ Get(m.profile).sector = None
                  THEN \* None.lower() raises AttributeError
                       [calls |-> << <<"get_company_profile", ticker>> >>,
                        skip |-> FALSE, raises |-> TRUE]
                  ELSE Stage(<< <<"get_company_profile", ticker>> >>,
                             sector_skip(m.profile))

bullish_4_percent_stage(ticker, rating, m, i) ==
    CASE i = 1 -> Stage(<<PriceCall(ticker, 180)>>, m.price_metrics = None)
      [] i = 2 -> Stage(<<>>, RLt(Get(m.price_metrics).price, RInt(1)))
      [] i = 3 -> Stage(<<>>, bullish_change_skip(Get(m.price_metrics)))
      [] i = 4 -> Stage(<<>>, RLe(Get(m.price_metrics).change_from_open, RInt(0)))
      [] i = 5 -> Stage(<<PriceCall(ticker, 100)>>, m.vol_metrics = None)
      [] i = 6 -> Stage(<<>>, RLe(Get(m.vol_metrics).current_volume, RInt(100)))
      [] i = 7 -> Stage(<<>>, RLe(Get(m.vol_metrics).rel_volume, RInt(1)))
      [] i = 8 -> Stage(<<>>, RLe(Get(m.vol_metrics).avg_vol_90, RInt(100)))
      [] i = 9 -> Stage(<< <<"get_company_profile", ticker>> >>, profile_skip(m.profile))
      [] i = 10 -> Stage(<<>>, RLe(Div(Get(Get(m.profile).market_cap), 1000000),
                                   RInt(250)))
      [] i = 11 -> Stage(RsCalls(ticker), rs_sts_skip(m.rs_sts))

healthy_chart_watchlist_stage(ticker, rating, m, i) ==
    CASE i = 1 -> Stage(<<>>, rs_rating_skip(rating, 90))
      [] i = 2 -> Stage(<<>>, rating.comp_rating = None \/ Get(rating.comp_rating) < 80)
      [] i = 3 -> Stage(<<>>, rating.ad_rating \notin {Some("A"), Some("B")})
      [] i = 4 -> Stage(<<PriceCall(ticker, 250)>>, m.ma_data = None)
      [] i = 5 -> Stage(<<>>, ~short_trend(Get(m.ma_data)))
      [] i = 6 -> Stage(<<>>, ~long_trend(Get(m.ma_data)))
      [] i = 7 -> Stage(<< <<"get_rating", ticker>> >>, ~m.rs_line_new_high)
      [] i = 8 -> Stage(<<PriceCall(ticker, 100)>>,
                        m.vol_metrics = None
                          \/ RLt(Get(m.vol_metrics).avg_vol_50, RInt(100)))

RatingScreeners == <<"screener_explosive_eps_growth", "screener_up_on_volume",
                     "screener_top_2_percent_rs", "screener_healthy_chart_watchlist">>

TickerScreeners == <<"screener_momentum_97", "screener_4_percent_bullish_yesterday">>

\* run_all_screeners with the healthy chart watchlist left out
AllScreenersButLast == <<"screener_momentum_97", "screener_explosive_eps_growth",
                         "screener_up_on_volume", "screener_top_2_percent_rs",
                         "screener_4_percent_bullish_yesterday">>

\* the order in which run_all_screeners runs them
AllScreeners == <<"screener_momentum_97", "screener_explosive_eps_growth",
                  "screener_up_on_volume", "screener_top_2_percent_rs",
                  "screener_4_percent_bullish_yesterday",
                  "screener_healthy_chart_watchlist">>

\* the screeners whose loop body is a try block with a stage chain
ChainScreeners == Range(AllScreeners) \ {"screener_momentum_97"}

NStages(s) ==
    CASE s = "screener_explosive_eps_growth" -> 6
      [] s = "screener_up_on_volume" -> 13
      [] s = "screener_top_2_percent_rs" -> 8
      [] s = "screener_4_percent_bullish_yesterday" -> 11
      [] s = "screener_healthy_chart_watchlist" -> 8

StageOf(s, ticker, rating, m, i) ==
    CASE s = "screener_explosive_eps_growth" ->
             explosive_eps_growth_stage(ticker, rating, m, i)
      [] s = "screener_up_on_volume" -> up_on_volume_stage(ticker, rating, m, i)
      [] s = "screener_top_2_percent_rs" -> top_2_percent_rs_stage(ticker, rating, m, i)
      [] s = "screener_4_percent_bullish_yesterday" ->
             bullish_4_percent_stage(ticker, rating, m, i)
      [] s = "screener_healthy_chart_watchlist" ->
             healthy_chart_watchlist_stage(ticker, rating, m, i)

Stops(st) == st.skip \/ st.raises

\* the stage at which the chain of s stops for this ticker: the first one that
\* skips or raises, NStages(s) + 1 when every stage lets the ticker through
RECURSIVE StopStage(_, _, _, _, _)
StopStage(s, ticker, rating, m, i) ==
    IF i > NStages(s) THEN i
    ELSE IF Stops(StageOf(s, ticker, rating, m, i)) THEN i
    ELSE StopStage(s, ticker, rating, m, i + 1)

\* the data-access calls of stages 1..last, in order
RECURSIVE StageCalls(_, _, _, _, _)
StageCalls(s, ticker, rating, m, last) ==
    IF last = 0 THEN <<>>
    ELSE StageCalls(s, ticker, rating, m, last - 1)
           \o StageOf(s, ticker, rating, m, last).calls

Verdict(s, ticker, rating, m, stop) ==
    [pass |-> stop > NStages(s),
     calls |-> StageCalls(s, ticker, rating, m,
                          IF stop > NStages(s) THEN NStages(s) ELSE stop)]

EvaluateWith(s, ticker, rating, m) ==
    Verdict(s, ticker, rating, m, StopStage(s, ticker, rating, m, 1))

\* one iteration of the loop of s when no data-access call fails
Evaluate(s, ticker, rating) == EvaluateWith(s, ticker, rating, Indicators(ticker))

-----------------------------------------------------------------------------
(* screener_momentum_97: percentile ranks over the tickers that have all    *)
(* three trailing changes.  An ordered dict is a sequence of entries.       *)

\* performance_data[ticker] = value on an ordered dict: a new key goes last,
\* an existing key keeps its place
DictPut(dict, entry) ==
    IF \E k \in 1..Len(dict) : dict[k].ticker = entry.ticker
    THEN [k \in 1..Len(dict) |-> IF dict[k].ticker = entry.ticker THEN entry ELSE dict[k]]
    ELSE Append(dict, entry)

\* mutant: an item goes before the earlier items with an equal key
InsertPosBeforeTies(sorted_items, x, key) ==
    Cardinality({k \in 1..Len(sorted_items) : RLt(sorted_items[k][key], x[key])})

\* where sorted() puts item x among the already sorted earlier items: after
\* every item whose key is not greater (the sort is stable)
InsertPos(sorted_items, x, key) ==
    Cardinality({k \in 1..Len(sorted_items) : RLe(sorted_items[k][key], x[key])})

\* sorted(items, key=lambda x: x[1])
RECURSIVE SortedBy(_, _)
SortedBy(items, key) ==
    IF items = <<>> THEN <<>>
    ELSE LET x == items[Len(items)]
             before == SortedBy(SubSeq(items, 1, Len(items) - 1), key)
             pos == InsertPos(before, x, key)
         IN  SubSeq(before, 1, pos) \o <<x>> \o SubSeq(before, pos + 1, Len(before))

\* mutant: the percentile is taken from the 0-based index
percentile_of_index_zero_based(idx0, total) == RMulInt(Div(idx0, total), 100)

\* ((idx + 1) / total) * 100 for the 0-based index idx0 of enumerate()
percentile_of_index(idx0, total) == RMulInt(Div(idx0 + 1, total), 100)

calc_percentile_ranks(values_dict, key) ==
    LET sorted_items == SortedBy(values_dict, key)
        total == Len(sorted_items)
    IN  [k \in 1..total |->
            [ticker |-> sorted_items[k].ticker, pct |-> percentile_of_index(k - 1, total)]]

\* rank.get(ticker, 0)
rank_get(rank, ticker) ==
    IF \E k \in 1..Len(rank) : rank[k].ticker = ticker
    THEN rank[CHOOSE k \in 1..Len(rank) : rank[k].ticker = ticker].pct
    ELSE RInt(0)

\* mutant: one rank of 97 is enough
momentum_passes_any(rank, ticker) ==
    \/ RGe(rank_get(rank.m1, ticker), RInt(97))
    \/ RGe(rank_get(rank.m3, ticker), RInt(97))
    \/ RGe(rank_get(rank.m6, ticker), RInt(97))

momentum_passes(rank, ticker) ==
    /\ RGe(rank_get(rank.m1, ticker), RInt(97))
    /\ RGe(rank_get(rank.m3, ticker), RInt(97))
    /\ RGe(rank_get(rank.m6, ticker), RInt(97))

\* rank_1m, rank_3m, rank_6m of screener_momentum_97
momentum_ranks(data) ==
    [m1 |-> calc_percentile_ranks(data, "m1"),
     m3 |-> calc_percentile_ranks(data, "m3"),
     m6 |-> calc_percentile_ranks(data, "m6")]

\* the filter loop of screener_momentum_97 over performance_data.keys()
momentum_filter(data, rank) ==
    LET keys == [k \in 1..Len(data) |-> data[k].ticker]
    IN  SelectSeq(keys, LAMBDA t : momentum_passes(rank, t))

-----------------------------------------------------------------------------
(* The engine *)

Pending == [kind |-> "pending", value |-> <<>>]

NoRanks == [m1 |-> <<>>, m3 |-> <<>>, m6 |-> <<>>]

\* mutant: the ticker is put in front
prepend_passed(lst, ticker) == <<ticker>> \o lst

\* passed.append(ticker)
append_passed(lst, ticker) == Append(lst, ticker)

\* mutant: the list of the previous screener is reused
initial_passed_kept == passed

\* passed = []
initial_passed == <<>>

\* mutant: the benchmark check demands more than 25 bars
benchmark_present_strict(benchmark_prices) ==
    benchmark_prices # None /\ Len(Get(benchmark_prices)) > 25

\* ensure_benchmark_data: the stored benchmark is enough, nothing is fetched
benchmark_present(benchmark_prices) ==
    benchmark_prices # None /\ Len(Get(benchmark_prices)) >= 25

\* the stores on which the screeners are also run with IBD_DEBUG set
DebugDatabases ==
    { MkDb(cfg, Some(Bench), Universe) :
        cfg \in { c \in Configs : c["A"] \in JustBelow \cup {Strong} } }

NoArgs == [fn |-> "none"]

\* the data-access calls of a screener before its loop: the collection it
\* iterates and, in screener_explosive_eps_growth with IBD_DEBUG set, the
\* rsSTS% test of the first rated ticker
start_calls(s) ==
    IF s \in Range(RatingScreeners)
    THEN << <<"get_all_ratings">> >>
         \o (IF s = "screener_explosive_eps_growth" /\ debug_mode
                 /\ Len(get_all_ratings) > 0
              THEN RsCalls(get_all_ratings[1].ticker) ELSE <<>>)
    ELSE << <<"get_all_tickers">> >>

Init ==
    /\ db \in Databases
    /\ pc = "idle"
    /\ op = "none"
    /\ todo = <<>>
    /\ iter = <<>>
    /\ idx = 0
    /\ passed = <<>>
    /\ performance_data = <<>>
    /\ ranks = NoRanks
    /\ screener_results = <<>>
    /\ returned = Pending
    /\ calls = <<>>
    /\ db_failed = FALSE
    /\ upstream = "untouched"
    /\ first_result = None
    /\ debug_mode \in (IF db \in DebugDatabases THEN BOOLEAN ELSE {FALSE})
    /\ args = NoArgs
    /\ result = None
    /\ attempt = 0
    /\ delay = 0

\* the caller invokes one screener
CallScreener(s) ==
    /\ pc = "idle"
    /\ pc' = "start"
    /\ op' = s
    /\ todo' = <<s>>
    /\ returned' = Pending
    /\ screener_results' = <<>>
    /\ calls' = <<>>
    /\ db_failed' = FALSE
    /\ upstream' = "untouched"
    /\ UNCHANGED <<attempt, delay, debug_mode, args, result, db, iter, idx, passed, performance_data, ranks, first_result>>

\* the caller invokes run_all_screeners
CallRunAll ==
    /\ pc = "idle"
    /\ pc' = "ensure"
    /\ op' = "run_all"
    /\ todo' = AllScreeners
    /\ returned' = Pending
    /\ screener_results' = <<>>
    /\ calls' = <<>>
    /\ db_failed' = FALSE
    /\ upstream' = "untouched"
    /\ UNCHANGED <<attempt, delay, debug_mode, args, result, db, iter, idx, passed, performance_data, ranks, first_result>>

\* ensure_benchmark_data('SPY') with the benchmark already stored
EnsureBenchmarkPresent ==
    /\ pc = "ensure"
    /\ benchmark_present(get_price_history(BENCHMARK, 30))
    /\ pc' = "start"
    /\ calls' = <<PriceCall(BENCHMARK, 30)>>
    /\ UNCHANGED <<attempt, delay, debug_mode, args, result, db, op, todo, iter, idx, passed, performance_data, ranks,
                   screener_results, returned, db_failed, upstream, first_result>>

\* ensure_benchmark_data('SPY') without FMP_API_KEY: returns False, run_all
\* prints its warning, sleeps and goes on
EnsureBenchmarkNoKey ==
    /\ pc = "ensure"
    /\ ~benchmark_present(get_price_history(BENCHMARK, 30))
    /\ pc' = "start"
    /\ calls' = <<PriceCall(BENCHMARK, 30)>>
    /\ UNCHANGED <<attempt, delay, debug_mode, args, result, db, op, todo, iter, idx, passed, performance_data, ranks,
                   screener_results, returned, db_failed, upstream, first_result>>

\* ensure_benchmark_data('SPY') with a key: IBDDataCollector asks the upstream
\* provider; when it succeeds the store holds the fetched benchmark series,
\* when it fails or raises the store is as before
EnsureBenchmarkFetch(success) ==
    /\ pc = "ensure"
    /\ ~benchmark_present(get_price_history(BENCHMARK, 30))
    /\ pc' = "start"
    /\ calls' = <<PriceCall(BENCHMARK, 30)>>
    /\ upstream' = "fetched"
    /\ db' = IF success THEN [db EXCEPT !.prices[BENCHMARK] = MkSeries(Bench)] ELSE db
    /\ first_result' = IF success THEN None ELSE first_result
    /\ UNCHANGED <<attempt, delay, debug_mode, args, result, op, todo, iter, idx, passed, performance_data, ranks,
                   screener_results, returned, db_failed>>

\* the lines of a screener before its loop
StartScreener ==
    /\ pc = "start"
    /\ pc' = "loop"
    /\ iter' = IF Head(todo) \in Range(RatingScreeners)
               THEN get_all_ratings
               ELSE [k \in 1..Len(get_all_tickers) |-> [ticker |-> get_all_tickers[k]]]
    /\ calls' = start_calls(Head(todo))
    /\ idx' = 1
    /\ passed' = initial_passed
    /\ performance_data' = <<>>
    /\ ranks' = NoRanks
    /\ UNCHANGED <<attempt, delay, debug_mode, args, result, db, op, todo, screener_results, returned, db_failed, upstream,
                   first_result>>

\* what one loop iteration with verdict e does to the local state
StepEffect(e) ==
    /\ passed' = IF e.pass THEN append_passed(passed, iter[idx].ticker) ELSE passed
    /\ calls' = e.calls

\* one iteration of the for loop of a screener with a try block
Step ==
    /\ pc = "loop"
    /\ Head(todo) \in ChainScreeners
    /\ idx <= Len(iter)
    /\ StepEffect(Evaluate(Head(todo), iter[idx].ticker, iter[idx]))
    /\ idx' = idx + 1
    /\ UNCHANGED <<attempt, delay, debug_mode, args, result, db, pc, op, todo, iter, performance_data, ranks, screener_results,
                   returned, db_failed, upstream, first_result>>

\* one iteration of the first loop of screener_momentum_97
MomentumCollect ==
    /\ pc = "loop"
    /\ Head(todo) = "screener_momentum_97"
    /\ idx <= Len(iter)
    /\ LET ticker == iter[idx].ticker
           price_metrics == get_price_metrics(ticker)
       IN  performance_data' =
             IF /\ price_metrics # None
                /\ Get(price_metrics).pct_1m # None
                /\ Get(price_metrics).pct_3m # None
                /\ Get(price_metrics).pct_6m # None
             THEN DictPut(performance_data,
                          [ticker |-> ticker,
                           m1 |-> Get(Get(price_metrics).pct_1m),
                           m3 |-> Get(Get(price_metrics).pct_3m),
                           m6 |-> Get(Get(price_metrics).pct_6m)])
             ELSE performance_data
    /\ calls' = <<PriceCall(iter[idx].ticker, 180)>>
    /\ idx' = idx + 1
    /\ UNCHANGED <<attempt, delay, debug_mode, args, result, db, pc, op, todo, iter, passed, ranks, screener_results, returned,
                   db_failed, upstream, first_result>>

\* the ranking and the filter loop of screener_momentum_97
MomentumRank ==
    /\ pc = "loop"
    /\ Head(todo) = "screener_momentum_97"
    /\ idx > Len(iter)
    /\ pc' = "ranked"
    /\ ranks' = momentum_ranks(performance_data)
    /\ passed' = momentum_filter(performance_data, ranks')
    /\ calls' = <<>>
    /\ UNCHANGED <<attempt, delay, debug_mode, args, result, db, op, todo, iter, idx, performance_data, screener_results, returned,
                   db_failed, upstream, first_result>>

\* `return passed`: to the caller, or into screener_results of run_all_screeners
ReturnScreener ==
    /\ \/ pc = "loop" /\ Head(todo) \in ChainScreeners /\ idx > Len(iter)
       \/ pc = "ranked"
    /\ first_result' = IF first_result = None
                       THEN Some([name |-> Head(todo), value |-> passed])
                       ELSE first_result
    /\ IF op = "run_all"
       THEN /\ screener_results' =
                  Append(screener_results, [name |-> Head(todo), value |-> passed])
            /\ pc' = IF Len(todo) = 1 THEN "write" ELSE "start"
            /\ returned' = returned
       ELSE /\ screener_results' = screener_results
            /\ pc' = "idle"
            /\ returned' = [kind |-> "list", value |-> passed]
    /\ todo' = Tail(todo)
    /\ iter' = <<>>
    /\ idx' = 0
    /\ performance_data' = <<>>
    /\ ranks' = NoRanks
    /\ calls' = <<>>
    /\ UNCHANGED <<attempt, delay, debug_mode, args, result, db, op, passed, db_failed, upstream>>

\* write_screeners_to_sheet, then run_all_screeners ends without a return value
WriteSheet ==
    /\ pc = "write"
    /\ pc' = "idle"
    /\ returned' = [kind |-> "none", value |-> <<>>]
    /\ calls' = <<>>
    /\ UNCHANGED <<attempt, delay, debug_mode, args, result, db, op, todo, iter, idx, passed, performance_data, ranks,
                   screener_results, db_failed, upstream, first_result>>

Next ==
    \/ \E s \in Range(AllScreeners) : CallScreener(s)
    \/ CallRunAll
    \/ EnsureBenchmarkPresent
    \/ EnsureBenchmarkNoKey
    \/ \E success \in BOOLEAN : EnsureBenchmarkFetch(success)
    \/ StartScreener
    \/ Step
    \/ MomentumCollect
    \/ MomentumRank
    \/ ReturnScreener
    \/ WriteSheet

Spec == Init /\ [][Next]_vars

-----------------------------------------------------------------------------
(* Data-access failures: a call on the store raises.                        *)

\* an exception leaves the running operation and reaches the caller
Propagate ==
    /\ pc' = "idle"
    /\ returned' = [kind |-> "raised", value |-> <<>>]
    /\ db_failed' = TRUE
    /\ todo' = <<>>
    /\ iter' = <<>>
    /\ idx' = 0
    /\ performance_data' = <<>>
    /\ ranks' = NoRanks
    /\ UNCHANGED <<attempt, delay, debug_mode, args, result, db, op, passed, screener_results, upstream, first_result>>

\* the data-access calls the current loop iteration makes when none raises
StepCalls == Evaluate(Head(todo), iter[idx].ticker, iter[idx]).calls

\* get_price_history raises in ensure_benchmark_data, before its try block
EnsureFail ==
    /\ pc = "ensure"
    /\ calls' = <<PriceCall(BENCHMARK, 30)>>
    /\ Propagate

\* a data-access call before the loop raises: get_all_ratings,
\* get_all_tickers, or a get_price_history of the IBD_DEBUG test
StartFail ==
    /\ pc = "start"
    /\ \E k \in 1..Len(start_calls(Head(todo))) :
          calls' = SubSeq(start_calls(Head(todo)), 1, k)
    /\ Propagate

\* one of the data-access calls of a loop iteration raises inside the try
\* block: `except: continue`
StepFail ==
    /\ pc = "loop"
    /\ Head(todo) \in ChainScreeners
    /\ idx <= Len(iter)
    /\ ~db_failed
    /\ \E k \in 1..Len(StepCalls) : calls' = SubSeq(StepCalls, 1, k)
    /\ idx' = idx + 1
    /\ db_failed' = TRUE
    /\ UNCHANGED <<attempt, delay, debug_mode, args, result, db, pc, op, todo, iter, passed, performance_data, ranks,
                   screener_results, returned, upstream, first_result>>

\* get_price_history raises in get_price_metrics, which screener_momentum_97
\* calls outside any try block
MomentumCollectFail ==
    /\ pc = "loop"
    /\ Head(todo) = "screener_momentum_97"
    /\ idx <= Len(iter)
    /\ calls' = <<PriceCall(iter[idx].ticker, 180)>>
    /\ Propagate

FewDatabases ==
    { MkDb(cfg, bench, Universe) :
        cfg \in { c \in Configs : c["A"] \in {Strong, AtEdge} },
        bench \in {Some(Bench), None} }

InitFailing == Init /\ db \in FewDatabases

NextFailing ==
    \/ Next
    \/ EnsureFail
    \/ StartFail
    \/ StepFail
    \/ MomentumCollectFail

SpecFailing == InitFailing /\ [][NextFailing]_vars

-----------------------------------------------------------------------------
(* Properties *)

MaWindows == {10, 21, 50, 150, 200}

MaField(ma_data, k) ==
    CASE k = 10 -> ma_data.ma10
      [] k = 21 -> ma_data.ma21
      [] k = 50 -> ma_data.ma50
      [] k = 150 -> ma_data.ma150
      [] k = 200 -> ma_data.ma200

MaPresent(ticker, k) ==
    /\ get_moving_averages(ticker) # None
    /\ MaField(Get(get_moving_averages(ticker)), k) # None

\* C1: each moving average is reported on its own: whenever the engine has
\* asked for a ticker's moving averages, the k-day average is present exactly
\* when the ticker's history has at least k bars (150 bars: the 50-day average
\* is present and the 200-day average absent).
C1_AveragesIndependent ==
    \A t \in Range(Universe) :
        PriceCall(t, 250) \in Range(calls) =>
            \A k \in MaWindows : MaPresent(t, k) <=> Len(db.prices[t]) >= k

\* C2: a data-access failure propagates to the caller: no invocation in which
\* a data-access call raised ends by handing the caller a result.
C2_FailurePropagates ==
    (pc = "idle" /\ returned.kind \in {"list", "none"}) => ~db_failed

ProfileScreeners == {"screener_up_on_volume", "screener_4_percent_bullish_yesterday",
                     "screener_top_2_percent_rs"}

\* C3: in the screeners with a profile predicate, no returned ticker has an
\* absent company profile.
C3_AbsentProfileFails ==
    (returned.kind = "list" /\ op \in ProfileScreeners) =>
        \A t \in Range(returned.value) : get_company_profile(t) # None

\* the 1-day % change of t has a non-zero denominator
OneDayChangeComputable(t) ==
    /\ Len(db.prices[t]) >= 2
    /\ FromEnd(db.prices[t], 2).close # 0

\* the volume % change of t has a non-zero 50-day average
VolumeChangeComputable(t) ==
    /\ Len(db.prices[t]) >= 90
    /\ \E k \in 1..50 : FromEnd(db.prices[t], k).volume # 0

\* C4: no ticker is admitted on a default value: every ticker returned by a
\* screener with a 1-day % change or volume % change predicate has that
\* indicator computable.
C4_NoDefaultAdmitted ==
    /\ (returned.kind = "list" /\ op \in {"screener_up_on_volume",
                                           "screener_4_percent_bullish_yesterday"}) =>
          \A t \in Range(returned.value) : OneDayChangeComputable(t)
    /\ (returned.kind = "list" /\ op = "screener_up_on_volume") =>
          \A t \in Range(returned.value) : VolumeChangeComputable(t)

RECURSIVE IsSubseq(_, _)
IsSubseq(a, b) ==
    IF a = <<>> THEN TRUE
    ELSE IF b = <<>> THEN FALSE
    ELSE IF Head(a) = Head(b) THEN IsSubseq(Tail(a), Tail(b))
    ELSE IsSubseq(a, Tail(b))

NoDuplicates(a) == \A i, j \in 1..Len(a) : a[i] = a[j] => i = j

RatedTickers == [k \in 1..Len(db.ratings) |-> db.ratings[k].ticker]

\* C6 as claimed: every list a screener returns is a duplicate-free
\* subsequence of listTickers().
C6_SubsequenceOfUniverse ==
    returned.kind = "list" =>
        NoDuplicates(returned.value) /\ IsSubseq(returned.value, db.tickers)

\* C6: every returned list is duplicate-free; Momentum 97 and 4% Bullish
\* Yesterday return a subsequence of listTickers(), the four rating-based
\* screeners a subsequence of the keys of allRatings() in its own order.
C6_SubsequenceOfIterated ==
    returned.kind = "list" =>
        /\ NoDuplicates(returned.value)
        /\ IsSubseq(returned.value,
                    IF op \in Range(TickerScreeners) THEN db.tickers ELSE RatedTickers)

\* a rating-based screener returned two tickers against the universe's order
C6_Witness ==
    /\ returned.kind = "list"
    /\ op \in Range(RatingScreeners)
    /\ Len(returned.value) >= 2
    /\ ~IsSubseq(returned.value, db.tickers)

\* C7: a screener that ran before on this snapshot returns the same ordered
\* list again, whichever screeners ran in between (singly or in a bulk run).
C7_Idempotent ==
    first_result # None =>
        /\ (returned.kind = "list" /\ op = Get(first_result).name) =>
              returned.value = Get(first_result).value
        /\ \A k \in 1..Len(screener_results) :
              screener_results[k].name = Get(first_result).name =>
                  screener_results[k].value = Get(first_result).value

\* Up on Volume ran alone first and again as the third screener of a bulk
\* run, and returned a ticker both times
C7_Witness ==
    /\ op = "run_all"
    /\ first_result # None
    /\ Get(first_result).name = "screener_up_on_volume"
    /\ Get(first_result).value # <<>>
    /\ \E k \in 1..Len(screener_results) :
          /\ screener_results[k].name = "screener_up_on_volume"
          /\ screener_results[k].value = Get(first_result).value

RatingOf(t) == Get(get_rating(t))

Last50Volume(t) == SumRange(Column(db.prices[t], "volume"),
                            Len(db.prices[t]) - 49, Len(db.prices[t]))

\* the nine conditions of Up on Volume on the stored data of ticker t
UpOnVolumeConditions(t) ==
    /\ get_rating(t) # None
    /\ RatingOf(t).rs_rating # None /\ Get(RatingOf(t).rs_rating) >= 80
    /\ get_rs_sts_percentile(t) # None
    /\ Get(get_rs_sts_percentile(t)).n >= 80 * Get(get_rs_sts_percentile(t)).d
    /\ RatingOf(t).ad_rating \in {Some("A"), Some("B"), Some("C")}
    /\ Len(db.prices[t]) >= 90
    /\ LET bars == db.prices[t]
           price == FromEnd(bars, 1).close
           before == FromEnd(bars, 2).close
           volume == FromEnd(bars, 1).volume
       IN  /\ before = 0 \/ price >= before
           /\ price >= 10 * FromEnd(bars, 1).unit
           /\ Last50Volume(t) >= 50 * 100 * 1000
           /\ Last50Volume(t) > 0
           /\ 100 * (50 * volume - Last50Volume(t)) >= 20 * Last50Volume(t)
    /\ get_company_profile(t) # None
    /\ Get(get_company_profile(t)).market_cap # None
    /\ Get(Get(get_company_profile(t)).market_cap) >= 250 * 1000000
    /\ get_all_eps_components[t] # None
    /\ Get(get_all_eps_components[t]).eps_growth_last_qtr # None
    /\ Get(Get(get_all_eps_components[t]).eps_growth_last_qtr) >= 20

\* C8: Up on Volume returns exactly the rated tickers that meet all nine
\* conditions (boundary values included), in the order of the ratings.
C8_UpOnVolumeExact ==
    (returned.kind = "list" /\ op = "screener_up_on_volume") =>
        returned.value = SelectSeq(RatedTickers, UpOnVolumeConditions)

\* three tickers, the first one exactly on every boundary, and the result is
\* exactly that ticker
C8_Witness ==
    /\ returned.kind = "list"
    /\ op = "screener_up_on_volume"
    /\ returned.value = <<"A">>
    /\ Len(db.ratings) >= 3
    /\ RatingOf("A").rs_rating = Some(80)
    /\ RatingOf("A").ad_rating = Some("C")
    /\ get_rs_sts_percentile("A") = Some(RInt(80))
    /\ FromEnd(db.prices["A"], 1).close = 10
    /\ FromEnd(db.prices["A"], 2).close = 10
    /\ Last50Volume("A") = 50 * 100 * 1000
    /\ FromEnd(db.prices["A"], 1).volume = 120000
    /\ Get(get_company_profile("A")).market_cap = Some(250000000)
    /\ Get(get_all_eps_components["A"]).eps_growth_last_qtr = Some(20)

MomentumAnchors == {21, 63, 126}

\* ticker t has its 1M, 3M and 6M trailing changes
Ranked(t) ==
    /\ Len(db.prices[t]) >= 126
    /\ \A k \in MomentumAnchors : FromEnd(db.prices[t], k).close # 0

RankedSet == {t \in Range(db.tickers) : Ranked(t)}

UniversePos(t) == CHOOSE k \in 1..Len(db.tickers) : db.tickers[k] = t

\* the trailing change over k bars of u against the one of t, as a comparison
\* of last/anchor with positive anchors
ChangeLess(u, t, k) ==
    FromEnd(db.prices[u], 1).close * FromEnd(db.prices[t], k).close
        < FromEnd(db.prices[t], 1).close * FromEnd(db.prices[u], k).close

ChangeEqual(u, t, k) ==
    FromEnd(db.prices[u], 1).close * FromEnd(db.prices[t], k).close
        = FromEnd(db.prices[t], 1).close * FromEnd(db.prices[u], k).close

\* rank_index + 1 of t in the ascending stable sort of the k-bar change
RankPosition(t, k) ==
    Cardinality({u \in RankedSet : ChangeLess(u, t, k)})
    + Cardinality({u \in RankedSet :
                      ChangeEqual(u, t, k) /\ UniversePos(u) <= UniversePos(t)})

MomentumQualifies(t) ==
    /\ Ranked(t)
    /\ \A k \in MomentumAnchors :
          100 * RankPosition(t, k) >= 97 * Cardinality(RankedSet)

StrictMaximum(t) ==
    /\ Ranked(t)
    /\ \A k \in MomentumAnchors : \A u \in RankedSet \ {t} : ChangeLess(u, t, k)

\* C9: Momentum 97 returns exactly the tickers that have all three trailing
\* changes and whose percentile (rank_index+1)/total*100 is at least 97 on each
\* of them, total counting only the tickers with all three changes; a strict
\* maximum on all three is returned, a ticker under 97 on one is not.
C9_MomentumExact ==
    (returned.kind = "list" /\ op = "screener_momentum_97") =>
        /\ returned.value = SelectSeq(db.tickers, MomentumQualifies)
        /\ \A t \in Range(db.tickers) :
              StrictMaximum(t) => t \in Range(returned.value)
        /\ \A t \in Range(returned.value) :
              /\ Ranked(t)
              /\ \A k \in MomentumAnchors :
                    100 * RankPosition(t, k) >= 97 * Cardinality(RankedSet)

\* Momentum 97 returned a ticker while one ticker with six months of bars was
\* left out of the ranking and another ranked ticker stayed under 97
C9_Witness ==
    /\ returned.kind = "list"
    /\ op = "screener_momentum_97"
    /\ returned.value # <<>>
    /\ \E t \in Range(db.tickers) : Len(db.prices[t]) >= 126 /\ ~Ranked(t)
    /\ \E u \in RankedSet : u \notin Range(returned.value)
    /\ \E v \in Range(returned.value) : StrictMaximum(v)

RankedKeys == [k \in 1..Len(performance_data) |-> performance_data[k].ticker]

Metrics == {"m1", "m3", "m6"}

\* C10: of two tickers with an equal value of a metric the one later in
\* listTickers() gets the strictly higher percentile, no two ranked tickers
\* share a percentile, and a tied ticker passes only if the later one does.
C10_StableTieBreak ==
    pc = "ranked" =>
        /\ IsSubseq(RankedKeys, db.tickers)
        /\ \A key \in Metrics : \A i, j \in 1..Len(performance_data) :
              /\ i # j =>
                    rank_get(ranks[key], RankedKeys[i]) # rank_get(ranks[key], RankedKeys[j])
              /\ (i < j /\ REq(performance_data[i][key], performance_data[j][key])) =>
                    RLt(rank_get(ranks[key], RankedKeys[i]),
                        rank_get(ranks[key], RankedKeys[j]))
        /\ \A i, j \in 1..Len(performance_data) :
              (/\ i < j
               /\ \A key \in Metrics :
                     REq(performance_data[i][key], performance_data[j][key])
               /\ RankedKeys[i] \in Range(passed))
              => RankedKeys[j] \in Range(passed)

\* two tickers tied on all three metrics at the top: the later one passes,
\* the earlier one does not
C10_Witness ==
    /\ pc = "ranked"
    /\ \E i, j \in 1..Len(performance_data) :
          /\ i < j
          /\ \A key \in Metrics :
                REq(performance_data[i][key], performance_data[j][key])
          /\ RankedKeys[j] \in Range(passed)
          /\ RankedKeys[i] \notin Range(passed)

\* the screeners whose first predicate is an rs_rating threshold, as C11
\* names them
RsThreshold(s) ==
    CASE s = "screener_explosive_eps_growth" -> 80
      [] s = "screener_up_on_volume" -> 80
      [] s = "screener_top_2_percent_rs" -> 98
      [] OTHER -> 0

LowRated(rating, s) ==
    rating.rs_rating = None \/ Get(rating.rs_rating) < RsThreshold(s)

\* a price-history or profile call for ticker t
PriceOrProfileCall(c, t) ==
    c[1] \in {"get_price_history", "get_company_profile"} /\ c[2] = t

\* the number of predicates of s evaluated for ticker t with indicators m:
\* all those before the first failing one, and that one
Evaluated(s, t, rating, m) ==
    LET fails(i) == Stops(StageOf(s, t, rating, m, i))
        first == CHOOSE i \in 1..(NStages(s) + 1) :
                    /\ \A j \in 1..(i - 1) : ~fails(j)
                    /\ i <= NStages(s) => fails(i)
    IN  IF first > NStages(s) THEN NStages(s) ELSE first

\* the calls of the predicates of s evaluated for ticker t
EvaluatedCalls(s, t, rating, m) ==
    StageCalls(s, t, rating, m, Evaluated(s, t, rating, m))

\* C11: the predicates of a ticker are evaluated in a fixed order and the
\* first failing one ends the evaluation: the calls issued for the ticker are
\* those of the predicates up to the failing one, and a ticker whose rs_rating
\* is absent or under the threshold causes no price-history, profile or EPS
\* call in Explosive EPS Growth, Up on Volume and Top 2% RS.
C11_ShortCircuit ==
    (pc = "loop" /\ Head(todo) \in ChainScreeners) =>
        /\ idx > 1 =>
              calls = EvaluatedCalls(Head(todo), iter[idx - 1].ticker, iter[idx - 1],
                                     Indicators(iter[idx - 1].ticker))
        /\ RsThreshold(Head(todo)) > 0 =>
              \A k \in 1..Len(iter) :
                 LowRated(iter[k], Head(todo)) =>
                    /\ k = idx - 1 => calls = <<>>
                    /\ \A i \in 1..Len(calls) :
                          ~PriceOrProfileCall(calls[i], iter[k].ticker)

\* the same with IBD_DEBUG unset
C11_ShortCircuitWithoutDebug == ~debug_mode => C11_ShortCircuit

Last90Volume(t) == SumRange(Column(db.prices[t], "volume"),
                            Len(db.prices[t]) - 89, Len(db.prices[t]))

\* the eight conditions of 4% Bullish Yesterday on the stored data of ticker t
BullishConditions(t) ==
    /\ Len(db.prices[t]) >= 90
    /\ LET bars == db.prices[t]
           last == FromEnd(bars, 1)
           before == FromEnd(bars, 2).close
       IN  /\ last.close >= 1 * last.unit
           /\ before > 0 /\ 100 * (last.close - before) > 4 * before
           /\ last.open > 0 /\ last.close > last.open
           /\ last.volume > 100 * 1000
           /\ Last50Volume(t) > 0 /\ 50 * last.volume > Last50Volume(t)
           /\ Last90Volume(t) > 90 * 100 * 1000
    /\ get_company_profile(t) # None
    /\ Get(get_company_profile(t)).market_cap # None
    /\ Get(Get(get_company_profile(t)).market_cap) > 250 * 1000000
    /\ get_rs_sts_percentile(t) # None
    /\ Get(get_rs_sts_percentile(t)).n >= 80 * Get(get_rs_sts_percentile(t)).d

\* C12: 4% Bullish Yesterday returns exactly the tickers of listTickers() with
\* price >= 1, 1-day change > 4, change from open > 0, current volume > 100
\* thousand, relative volume > 1, 90-day average volume > 100 thousand, market
\* cap > 250 million and rsSTS% >= 80, in the universe's order.
C12_BullishExact ==
    (returned.kind = "list" /\ op = "screener_4_percent_bullish_yesterday") =>
        returned.value = SelectSeq(db.tickers, BullishConditions)

\* the result is exactly the ticker whose price is exactly 1 and whose rsSTS%
\* is exactly 80
C12_Witness ==
    /\ returned.kind = "list"
    /\ op = "screener_4_percent_bullish_yesterday"
    /\ returned.value = <<"A">>
    /\ FromEnd(db.prices["A"], 1).close = FromEnd(db.prices["A"], 1).unit
    /\ get_rs_sts_percentile("A") = Some(RInt(80))
    /\ get_rating("A") = None

\* the sum of the last k closes of ticker t
LastCloses(t, k) == SumRange(Column(db.prices[t], "close"),
                             Len(db.prices[t]) - k + 1, Len(db.prices[t]))

\* MA(a) > MA(b) for the simple moving averages over the last a and b closes
MaAbove(t, a, b) == LastCloses(t, a) * b > LastCloses(t, b) * a

\* the sector of the profile contains the word in some letter case
SectorHas(profile, word) ==
    LET sector == Get(Get(profile).sector)
    IN  \E i \in 1..Len(sector) :
           /\ i + Len(word) - 1 <= Len(sector)
           /\ ToLower(SubSeq(sector, i, i + Len(word) - 1)) = word

\* the six conditions of Top 2% RS on the stored data of ticker t; an absent
\* profile or sector fails the sector condition, the moving averages take 200
\* bars and the volume metrics 90
TopRsConditions(t) ==
    /\ get_rating(t) # None
    /\ RatingOf(t).rs_rating # None /\ Get(RatingOf(t).rs_rating) >= 98
    /\ get_rs_sts_percentile(t) # None
    /\ Get(get_rs_sts_percentile(t)).n >= 80 * Get(get_rs_sts_percentile(t)).d
    /\ Len(db.prices[t]) >= 200
    /\ MaAbove(t, 10, 21) /\ MaAbove(t, 21, 50)
    /\ Last50Volume(t) >= 50 * 100 * 1000
    /\ FromEnd(db.prices[t], 1).volume >= 100 * 1000
    /\ get_company_profile(t) # None
    /\ Get(get_company_profile(t)).sector # None
    /\ ~SectorHas(get_company_profile(t), <<"h", "e", "a", "l", "t", "h", "c", "a", "r", "e">>)
    /\ ~SectorHas(get_company_profile(t), <<"m", "e", "d", "i", "c", "a", "l">>)

\* C13: Top 2% RS returns a rated ticker exactly when rs_rating >= 98,
\* rsSTS% >= 80, MA10 > MA21 > MA50, 50-day average volume >= 100 thousand,
\* current volume >= 100 thousand and its sector contains neither
\* "healthcare" nor "medical" in any letter case.
C13_TopRsExact ==
    (returned.kind = "list" /\ op = "screener_top_2_percent_rs") =>
        returned.value = SelectSeq(RatedTickers, TopRsConditions)

\* the same for the stores in which every rated ticker has a profile
C13_TopRsExactWithProfiles ==
    (\A t \in Range(RatedTickers) : get_company_profile(t) # None) => C13_TopRsExact

\* the seven conditions of Healthy Chart Watchlist on the stored data of
\* ticker t: no rsSTS%, no benchmark
HealthyConditions(t) ==
    /\ get_rating(t) # None
    /\ RatingOf(t).rs_rating # None /\ Get(RatingOf(t).rs_rating) >= 90
    /\ RatingOf(t).comp_rating # None /\ Get(RatingOf(t).comp_rating) >= 80
    /\ RatingOf(t).ad_rating \in {Some("A"), Some("B")}
    /\ Len(db.prices[t]) >= 200
    /\ MaAbove(t, 10, 21) /\ MaAbove(t, 21, 50)
    /\ MaAbove(t, 50, 150) /\ MaAbove(t, 150, 200)
    /\ RatingOf(t).price_vs_52w_high # None
    /\ Get(RatingOf(t).price_vs_52w_high) >= -5
    /\ Last50Volume(t) >= 50 * 100 * 1000

\* C14: Healthy Chart Watchlist returns a rated ticker exactly when
\* rs_rating >= 90, comp_rating >= 80, ad_rating in {A,B}, MA10 > MA21 > MA50,
\* MA50 > MA150 > MA200, price_vs_52w_high >= -5 and the 50-day average
\* volume >= 100 thousand; an absent rating field or fewer than 200 bars
\* excludes the ticker, and neither rsSTS% nor the benchmark matters.
C14_HealthyExact ==
    (returned.kind = "list" /\ op = "screener_healthy_chart_watchlist") =>
        /\ returned.value = SelectSeq(RatedTickers, HealthyConditions)
        /\ \A t \in Range(returned.value) :
              /\ Len(db.prices[t]) >= 200
              /\ None \notin {RatingOf(t).rs_rating, RatingOf(t).comp_rating,
                              RatingOf(t).ad_rating, RatingOf(t).price_vs_52w_high}

\* the result is exactly the ticker that sits on every threshold
C14_Witness ==
    /\ returned.kind = "list"
    /\ op = "screener_healthy_chart_watchlist"
    /\ returned.value = <<"A">>
    /\ RatingOf("A") = [ticker |-> "A"] @@ MkRating(Some(90), Some(80), Some("B"), Some(-5))
    /\ Last50Volume("A") = 50 * 100 * 1000
    /\ Len(db.ratings) >= 3

\* a ticker is returned although the store holds no benchmark series, so that
\* no rsSTS% exists
C14_WitnessNoBenchmark ==
    /\ returned.kind = "list"
    /\ op = "screener_healthy_chart_watchlist"
    /\ returned.value # <<>>
    /\ db.prices[BENCHMARK] = <<>>

\* the five conditions of Explosive EPS Growth on the stored data of ticker
\* t; the price is compared with a 50-day average that is not 0
ExplosiveConditions(t) ==
    /\ get_rating(t) # None
    /\ RatingOf(t).rs_rating # None /\ Get(RatingOf(t).rs_rating) >= 80
    /\ get_rs_sts_percentile(t) # None
    /\ Get(get_rs_sts_percentile(t)).n >= 80 * Get(get_rs_sts_percentile(t)).d
    /\ get_all_eps_components[t] # None
    /\ Get(get_all_eps_components[t]).eps_growth_last_qtr # None
    /\ Get(Get(get_all_eps_components[t]).eps_growth_last_qtr) >= 100
    /\ Len(db.prices[t]) >= 200
    /\ Last50Volume(t) >= 50 * 100 * 1000
    /\ LastCloses(t, 50) > 0
    /\ 50 * FromEnd(db.prices[t], 1).close >= LastCloses(t, 50)

\* C15: Explosive EPS Growth returns a rated ticker exactly when
\* rs_rating >= 80, rsSTS% >= 80, EPS growth last quarter >= 100, 50-day average
\* volume >= 100 thousand and price vs 50-day moving average >= 0; a ticker
\* without EPS data, with fewer than 90 or fewer than 200 bars is not returned.
C15_ExplosiveExact ==
    (returned.kind = "list" /\ op = "screener_explosive_eps_growth") =>
        returned.value = SelectSeq(RatedTickers, ExplosiveConditions)

\* the same for the stores in which no rated ticker has a 50-day average of 0
C15_ExplosiveExactNonZero ==
    (\A t \in Range(RatedTickers) :
        Len(db.prices[t]) >= 50 => LastCloses(t, 50) > 0) => C15_ExplosiveExact

\* Explosive EPS Growth returns exactly the ticker on its thresholds
C15_SeenAtEdge ==
    /\ returned.kind = "list"
    /\ op = "screener_explosive_eps_growth"
    /\ returned.value = <<"A">>
    /\ RatingOf("A").rs_rating = Some(80)
    /\ Get(get_all_eps_components["A"]).eps_growth_last_qtr = Some(100)
    /\ 50 * FromEnd(db.prices["A"], 1).close = LastCloses("A", 50)

\* ---------------------------------------------------------------------------
\* C16
\* ---------------------------------------------------------------------------

ScreenerNames == <<"screener_momentum_97", "screener_explosive_eps_growth",
                   "screener_up_on_volume", "screener_top_2_percent_rs",
                   "screener_4_percent_bullish_yesterday",
                   "screener_healthy_chart_watchlist">>

\* the rows a chain screener iterates over on the stored data
IteratedRows(s) ==
    IF s \in Range(RatingScreeners)
    THEN get_all_ratings
    ELSE [k \in 1..Len(get_all_tickers) |-> [ticker |-> get_all_tickers[k]]]

PassesAlone(s, row) == Evaluate(s, row.ticker, row).pass

\* what screener s returns when it is invoked on its own on the stored data
ReturnedAlone(s) ==
    IF s = "screener_momentum_97"
    THEN SelectSeq(db.tickers, MomentumQualifies)
    ELSE LET kept == SelectSeq(IteratedRows(s), LAMBDA row : PassesAlone(s, row))
         IN  [k \in 1..Len(kept) |-> kept[k].ticker]

RunAllFinished == op = "run_all" /\ pc = "idle" /\ returned # Pending

SixEntriesAsAlone(mapping) ==
    /\ Len(mapping) = Len(ScreenerNames)
    /\ \A k \in 1..Len(mapping) :
          /\ mapping[k].name = ScreenerNames[k]
          /\ mapping[k].value = ReturnedAlone(ScreenerNames[k])

\* C16 as stated: run_all_screeners returns to its caller a mapping with
\* exactly one entry per screener, each entry being the list that screener
\* returns when invoked on its own against the same data.
C16_ReturnsMapping ==
    RunAllFinished =>
        /\ returned.kind = "mapping"
        /\ SixEntriesAsAlone(returned.value)

\* C16 amended: run_all_screeners builds a mapping with exactly one entry per
\* screener, in the order the screeners run, each entry being the list that
\* screener returns when invoked on its own against the same data; it hands
\* this mapping to write_screeners_to_sheet and returns nothing to its caller.
C16_MappingHandedToSheet ==
    /\ returned.kind = "list" => returned.value = ReturnedAlone(op)
    /\ (op = "run_all" /\ pc = "write") => SixEntriesAsAlone(screener_results)
    /\ RunAllFinished =>
          /\ returned.kind = "none"
          /\ SixEntriesAsAlone(screener_results)

C16_Witness ==
    /\ RunAllFinished
    /\ returned.kind = "none"
    /\ Len(screener_results) = 6
    /\ \E j, k \in 1..Len(screener_results) :
          /\ screener_results[j].value # <<>>
          /\ screener_results[k].value # <<>>
          /\ screener_results[j].value # screener_results[k].value


-----------------------------------------------------------------------------
(* The two RS calculators applied on their own to bounded inputs.            *)

MaxBars == 6

MaxDays == 4

MaxLen == 4

OverlapShort == 20

DefaultDays == 25

LongLen == 20001

\* n bars on the dates start, start + gap, ...; the close is a function of
\* the date, 0 at the positions of zeros
DatedBars(n, start, gap, zeros, close_at(_)) ==
    [i \in 1..n |->
        LET d == start + (i - 1) * gap
            c == IF i \in zeros THEN 0 ELSE close_at(d)
        IN  [date |-> d, open |-> c, close |-> c, unit |-> 1, volume |-> 1000]]

BenchmarkCloseAt(d) == 100 + d

TargetCloseAt(d) == 3 * d + 1

BenchmarkInputs ==
    {None, Some(<<>>)}
    \cup { Some(DatedBars(MaxBars, 1, gap, zeros, BenchmarkCloseAt)) :
             gap \in {1, 2}, zeros \in {{}} \cup {{z} : z \in 1..MaxBars} }

TargetInputs ==
    {None, Some(<<>>)}
    \cup { Some(DatedBars(n, start, gap, {}, TargetCloseAt)) :
             n \in {MaxBars \div 2, MaxBars}, start \in {1, 2}, gap \in {1, 2} }

RsArgs(benchmark_prices, target_prices, days) ==
    [fn |-> "calculate_relative_strength", benchmark_prices |-> benchmark_prices,
     target_prices |-> target_prices, days |-> days, rs_values |-> None]

\* the benchmark has 30 bars and the target the most recent n of them
OverlapArgs(n) ==
    RsArgs(Some(DatedBars(DefaultDays + 5, 1, 1, {}, BenchmarkCloseAt)),
           Some(DatedBars(n, DefaultDays + 6 - n, 1, {}, TargetCloseAt)),
           DefaultDays)

RelativeStrengthInputs ==
    { RsArgs(b, t, days) : b \in BenchmarkInputs, t \in TargetInputs, days \in 1..MaxDays }
    \cup {OverlapArgs(OverlapShort), OverlapArgs(DefaultDays)}

PercentileArgs(rs_values) ==
    [fn |-> "calculate_rs_sts_percentile", benchmark_prices |-> None,
     target_prices |-> None, days |-> 0, rs_values |-> rs_values]

\* ratio values, two of them equal floats written as different fractions
RatioValues == {Rat(1, 2), Rat(2, 4), Rat(1, 1), Rat(3, 2)}

Falling(n) == [i \in 1..n |-> Rat(n + 1 - i, 7)]

Rising(n) == [i \in 1..n |-> Rat(i, 7)]

PercentileInputs ==
    {PercentileArgs(None)}
    \cup { PercentileArgs(Some(v)) :
             v \in UNION { [1..n -> RatioValues] : n \in 0..MaxLen } }
    \cup { PercentileArgs(Some(v)) :
             v \in { Falling(n) : n \in (MaxLen + 1)..(MaxLen + 4) }
                   \cup { Rising(n) : n \in (MaxLen + 1)..(MaxLen + 4) }
                   \cup {Falling(DefaultDays), Rising(DefaultDays),
                         Falling(DefaultDays + 7), Falling(LongLen)} }

\* `not profile or not profile.get('industry')`
industry_unknown(profile) ==
    \/ profile = None
    \/ Get(profile).industry = None
    \/ Get(Get(profile).industry) = ""

\* mutant: percentile > 50
at_least_half_strict(count, total) == RLt(RInt(50), RMulInt(Div(count, total), 100))

\* count / total * 100 >= 50
at_least_half(count, total) == RLe(RInt(50), RMulInt(Div(count, total), 100))

get_industry_group_quadrant(ticker, sector_rotation_df) ==
    IF sector_rotation_df = None \/ Len(Get(sector_rotation_df)) = 0 THEN None
    ELSE
    LET df == Get(sector_rotation_df)
        profile == get_company_profile(ticker)
    IN  IF industry_unknown(profile) THEN None
        ELSE
        LET industry == Get(Get(profile).industry)
            industry_data == SelectSeq(df, LAMBDA row : row.industry = industry)
        IN  IF Len(industry_data) = 0 THEN None
            ELSE
            LET weekly_rs == industry_data[1].weekly_rs
                monthly_rs == industry_data[1].monthly_rs
                weekly_high ==
                    at_least_half(Cardinality({i \in 1..Len(df) : df[i].weekly_rs <= weekly_rs}),
                                  Len(df))
                monthly_high ==
                    at_least_half(Cardinality({i \in 1..Len(df) : df[i].monthly_rs <= monthly_rs}),
                                  Len(df))
            IN  IF weekly_high /\ monthly_high THEN Some("Strong")
                ELSE IF weekly_high /\ ~monthly_high THEN Some("Improving")
                ELSE IF ~weekly_high /\ monthly_high THEN Some("Weakening")
                ELSE Some("Weak")

MaxRows == 3

IndustryNames == <<"Software", "Banks", "Steel", "Airlines", "Retail">>

RsLevels == {1, 2, 3}

RotationRow(industry, weekly_rs, monthly_rs) ==
    [industry |-> industry, weekly_rs |-> weekly_rs, monthly_rs |-> monthly_rs]

\* rotation tables: absent, empty, up to MaxRows distinct industries with
\* every combination of levels, one with a repeated industry and one with a
\* row whose industry is the empty string
RotationTables ==
    {None, Some(<<>>)}
    \cup { Some([i \in 1..n |-> RotationRow(IndustryNames[i], w[i], m[i])]) :
             n \in 1..MaxRows, w \in [1..MaxRows -> RsLevels], m \in [1..MaxRows -> RsLevels] }
    \cup { Some(<<RotationRow("Banks", 3, 3), RotationRow("Software", 1, 3),
                  RotationRow("Software", 3, 1), RotationRow("", 3, 3)>>) }

QuadrantProfiles ==
    {None}
    \cup { Some([sector |-> Some(Technology), industry |-> industry,
                 market_cap |-> Some(300000000)]) :
             industry \in {None, Some(""), Some("Software"), Some("software"),
                           Some("Steel"), Some("Retail")} }

QuadrantStores ==
    { MkDb([t \in Range(Universe) |-> IF t = "A" THEN [Bare EXCEPT !.profile = profile]
                                      ELSE Bare],
           None, Universe) :
        profile \in QuadrantProfiles }

QuadrantArgs(ticker, sector_rotation_df) ==
    [fn |-> "_get_industry_group_quadrant", ticker |-> ticker,
     sector_rotation_df |-> sector_rotation_df]

PriceMetricsArgs(ticker) == [fn |-> "get_price_metrics", ticker |-> ticker]

\* series around every length the price metrics depend on, with at most one
\* zero close (counted from the most recent bar)
PriceSeries ==
    {None}
    \cup { Some([Up EXCEPT !.n = n, !.zeros = zeros]) :
             n \in {1, 2, 3, 20, 21, 22, 62, 63, 64, 125, 126, 127, 180, 181, 200},
             zeros \in {{}, {0}, {1}, {19}, {20}, {21}, {62}, {125}} }

PriceStores ==
    { MkDb([t \in Range(Universe) |-> IF t = "A" THEN [Bare EXCEPT !.series = series]
                                      ELSE Bare],
           None, Universe) :
        series \in PriceSeries }

MomentumArgs(data) == [fn |-> "screener_momentum_97", performance_data |-> data]

\* the sizes of the ranked population around the points where one more
\* ticker fits above the 97th percentile
PopulationSizes == {0, 1, 2, 3, 32, 33, 34, 35}

\* the three changes of the i-th of n ranked tickers: rising with i on every
\* metric, falling on the 3-month one, equal for all tickers, or with the two
\* strongest tickers swapped on the 6-month one
PerformanceOf(shape, n, i) ==
    [ticker |-> i,
     m1 |-> IF shape = "flat" THEN RInt(5) ELSE RInt(i),
     m3 |-> CASE shape = "flat" -> RInt(5)
              [] shape = "opposed" -> RInt(n - i)
              [] OTHER -> RInt(i),
     m6 |-> CASE shape = "flat" -> RInt(5)
              [] shape = "swapped" /\ i = n -> Rat(2 * n - 3, 2)
              [] OTHER -> RInt(i)]

PerformanceInputs ==
    { MomentumArgs([i \in 1..n |-> PerformanceOf(shape, n, i)]) :
        n \in PopulationSizes, shape \in {"aligned", "opposed", "flat", "swapped"} }

RsStsArgs(ticker) == [fn |-> "get_rs_sts_percentile", ticker |-> ticker]

\* benchmark series for rsSTS%: missing, 24 to 40 bars, daily or every second
\* day, one zero close at most (counted from the most recent bar)
RsBenchmarks ==
    {None}
    \cup { Some([Bench EXCEPT !.n = n, !.dstep = dstep, !.zeros = zeros,
                              !.base = 200, !.step = 1]) :
             n \in {24, 25, 30, 40}, dstep \in {1, 2},
             zeros \in {{}, {0}, {24}, {25}, {27}} }

\* ticker series for rsSTS%: missing, 24 to 40 bars, daily or every second
\* day, ending up to 6 days before the benchmark, rising or falling
RsTargets ==
    {None}
    \cup { Some([Up EXCEPT !.n = n, !.dstep = dstep, !.doff = doff, !.step = step,
                           !.last = 300, !.prev = 300 - step]) :
             n \in {24, 25, 30, 40}, dstep \in {1, 2}, doff \in {0, 1, 5, 6},
             step \in {1, -1} }

RsStores ==
    { MkDb([t \in Range(Universe) |-> IF t = "A" THEN [Bare EXCEPT !.series = target]
                                      ELSE Bare],
           bench, Universe) :
        bench \in RsBenchmarks, target \in RsTargets }

InitPure ==
    /\ \/ /\ db = MkDb([t \in Range(Universe) |-> Bare], None, Universe)
          /\ args \in RelativeStrengthInputs \cup PercentileInputs
       \/ /\ db \in RsStores
          /\ args = RsStsArgs("A")
       \/ /\ db = MkDb([t \in Range(Universe) |-> Bare], None, Universe)
          /\ args \in PerformanceInputs
       \/ /\ db \in PriceStores
          /\ args = PriceMetricsArgs("A")
       \/ /\ db \in QuadrantStores
          /\ args \in { QuadrantArgs("A", table) : table \in RotationTables }
    /\ debug_mode = FALSE
    /\ pc = "apply"
    /\ op = "none"
    /\ todo = <<>>
    /\ iter = <<>>
    /\ idx = 0
    /\ passed = <<>>
    /\ performance_data = <<>>
    /\ ranks = NoRanks
    /\ screener_results = <<>>
    /\ returned = Pending
    /\ calls = <<>>
    /\ db_failed = FALSE
    /\ upstream = "untouched"
    /\ first_result = None
    /\ result = None
    /\ attempt = 0
    /\ delay = 0

\* rs = self.calculate_relative_strength(benchmark_prices, target_prices, days)
ApplyRelativeStrength ==
    /\ pc = "apply"
    /\ args.fn = "calculate_relative_strength"
    /\ result' = Some(calculate_relative_strength(args.benchmark_prices,
                                                  args.target_prices, args.days))
    /\ pc' = "applied"
    /\ UNCHANGED <<attempt, delay, debug_mode, args, db, op, todo, iter, idx, passed, performance_data,
                   ranks, screener_results, returned, calls, db_failed, upstream,
                   first_result>>

\* percentile = self.calculate_rs_sts_percentile(rs_values)
ApplyPercentile ==
    /\ pc = "apply"
    /\ args.fn = "calculate_rs_sts_percentile"
    /\ result' = Some(calculate_rs_sts_percentile(args.rs_values))
    /\ pc' = "applied"
    /\ UNCHANGED <<attempt, delay, debug_mode, args, db, op, todo, iter, idx, passed, performance_data,
                   ranks, screener_results, returned, calls, db_failed, upstream,
                   first_result>>

\* rs_sts = self.get_rs_sts_percentile(ticker)
ApplyRsSts ==
    /\ pc = "apply"
    /\ args.fn = "get_rs_sts_percentile"
    /\ result' = Some(get_rs_sts_percentile(args.ticker))
    /\ pc' = "applied"
    /\ UNCHANGED <<attempt, delay, debug_mode, args, db, op, todo, iter, idx, passed, performance_data,
                   ranks, screener_results, returned, calls, db_failed, upstream,
                   first_result>>

\* quadrant = self._get_industry_group_quadrant(ticker, sector_rotation_df)
ApplyQuadrant ==
    /\ pc = "apply"
    /\ args.fn = "_get_industry_group_quadrant"
    /\ result' = Some(get_industry_group_quadrant(args.ticker, args.sector_rotation_df))
    /\ pc' = "applied"
    /\ UNCHANGED <<attempt, delay, debug_mode, args, db, op, todo, iter, idx, passed, performance_data,
                   ranks, screener_results, returned, calls, db_failed, upstream,
                   first_result>>

\* price_metrics = self.get_price_metrics(ticker)
ApplyPriceMetrics ==
    /\ pc = "apply"
    /\ args.fn = "get_price_metrics"
    /\ result' = Some(get_price_metrics(args.ticker))
    /\ pc' = "applied"
    /\ UNCHANGED <<attempt, delay, debug_mode, args, db, op, todo, iter, idx, passed, performance_data,
                   ranks, screener_results, returned, calls, db_failed, upstream,
                   first_result>>

\* the ranking and the filter loop of screener_momentum_97 on the collected
\* performance_data
ApplyMomentumFilter ==
    /\ pc = "apply"
    /\ args.fn = "screener_momentum_97"
    /\ result' = Some(momentum_filter(args.performance_data,
                                      momentum_ranks(args.performance_data)))
    /\ pc' = "applied"
    /\ UNCHANGED <<attempt, delay, debug_mode, args, db, op, todo, iter, idx, passed, performance_data,
                   ranks, screener_results, returned, calls, db_failed, upstream,
                   first_result>>

NextPure ==
    \/ ApplyMomentumFilter
    \/ ApplyPriceMetrics
    \/ ApplyRelativeStrength
    \/ ApplyPercentile
    \/ ApplyRsSts
    \/ ApplyQuadrant

SpecPure == InitPure /\ [][NextPure]_vars


\* ---------------------------------------------------------------------------
\* C17, C18
\* ---------------------------------------------------------------------------

RsApplied ==
    /\ pc = "applied"
    /\ args.fn = "calculate_relative_strength"
    /\ args.benchmark_prices # None
    /\ args.target_prices # None

RsOutput == Get(result)

Dates(df) == {df[i].date : i \in 1..Len(df)}

CloseOn(df, d) == df[CHOOSE i \in 1..Len(df) : df[i].date = d].close

CommonDates == Dates(Get(args.benchmark_prices)) \cap Dates(Get(args.target_prices))

\* the most recent args.days common dates
RetainedDates ==
    {d \in CommonDates : Cardinality({e \in CommonDates : e > d}) < args.days}

\* the i-th retained date in ascending order
RetainedDate(i) ==
    CHOOSE d \in RetainedDates : Cardinality({e \in RetainedDates : e <= d}) = i

ZeroBenchmarkOn(dates) ==
    \E d \in dates : CloseOn(Get(args.benchmark_prices), d) = 0

\* the output is one ratio target_close / benchmark_close per retained date,
\* in ascending date order
RatiosOfRetained ==
    /\ RsOutput # None
    /\ Len(Get(RsOutput)) = args.days
    /\ \A i \in 1..args.days :
          /\ CloseOn(Get(args.benchmark_prices), RetainedDate(i)) # 0
          /\ Get(RsOutput)[i].d # 0
          /\ REq(Get(RsOutput)[i],
                 Rat(CloseOn(Get(args.target_prices), RetainedDate(i)),
                     CloseOn(Get(args.benchmark_prices), RetainedDate(i))))

\* C17 as stated: the result is absent whenever fewer than `days` dates occur
\* in both series; with at least `days` common dates it is a sequence of
\* exactly `days` ratios target_close / benchmark_close, one per each of the
\* most recent `days` common dates in ascending date order.
C17_DaysRatiosWhenEnoughCommon ==
    RsApplied =>
        /\ Cardinality(CommonDates) < args.days => RsOutput = None
        /\ Cardinality(CommonDates) >= args.days => RatiosOfRetained

\* C17 amended: the result is absent whenever fewer than `days` dates occur in
\* both series; with at least `days` common dates and no benchmark close of 0
\* on the most recent `days` of them it is a sequence of exactly `days` ratios
\* target_close / benchmark_close, one per each of those dates in ascending
\* date order; dates present in only one series never contribute.
C17_DaysRatiosUnlessZero ==
    RsApplied =>
        /\ Cardinality(CommonDates) < args.days => RsOutput = None
        /\ (Cardinality(CommonDates) >= args.days /\ ~ZeroBenchmarkOn(RetainedDates))
              => RatiosOfRetained

\* enough common dates, some dates in one series only, `days` ratios returned
C17_Witness ==
    /\ RsApplied
    /\ Cardinality(CommonDates) > args.days
    /\ args.days > 1
    /\ Dates(Get(args.benchmark_prices)) \ CommonDates # {}
    /\ Dates(Get(args.target_prices)) \ CommonDates # {}
    /\ RsOutput # None
    /\ Len(Get(RsOutput)) = args.days

\* the spec's example: 25 days asked from a 20-day overlap
C17_WitnessShortOverlap ==
    /\ RsApplied
    /\ args.days = DefaultDays
    /\ Cardinality(CommonDates) = OverlapShort
    /\ RsOutput = None

\* C18: with at least `days` common dates, the result is absent exactly when
\* the benchmark close is 0 on one of the most recent `days` common dates, and
\* no returned ratio has a zero denominator; a benchmark close of 0 on an
\* older common date, or on a date missing from the target series, leaves the
\* result present.
C18_AbsentIffRetainedZero ==
    (RsApplied /\ Cardinality(CommonDates) >= args.days) =>
        /\ ZeroBenchmarkOn(RetainedDates) => RsOutput = None
        /\ (ZeroBenchmarkOn(CommonDates \ RetainedDates)
              /\ ~ZeroBenchmarkOn(RetainedDates)) => RsOutput # None
        /\ (ZeroBenchmarkOn(Dates(Get(args.benchmark_prices)) \ CommonDates)
              /\ ~ZeroBenchmarkOn(RetainedDates)) => RsOutput # None
        /\ RsOutput # None =>
              \A i \in 1..Len(Get(RsOutput)) : Get(RsOutput)[i].d # 0

\* a benchmark close of 0 on an older common date, result present
C18_Witness ==
    /\ RsApplied
    /\ Cardinality(CommonDates) >= args.days
    /\ ZeroBenchmarkOn(CommonDates \ RetainedDates)
    /\ RsOutput # None

C18_WitnessRetainedZero ==
    /\ RsApplied
    /\ Cardinality(CommonDates) >= args.days
    /\ ZeroBenchmarkOn(RetainedDates)
    /\ RsOutput = None

C18_WitnessUnjoinedZero ==
    /\ RsApplied
    /\ Cardinality(CommonDates) >= args.days
    /\ ZeroBenchmarkOn(Dates(Get(args.benchmark_prices)) \ CommonDates)
    /\ RsOutput # None


\* ---------------------------------------------------------------------------
\* C19, C20
\* ---------------------------------------------------------------------------

PercentileApplied == pc = "applied" /\ args.fn = "calculate_rs_sts_percentile"

\* applied to a non-empty ratio sequence
PercentileOfValues ==
    /\ PercentileApplied
    /\ args.rs_values # None
    /\ Len(Get(args.rs_values)) > 0

Percentile == Get(result)

RsValues == Get(args.rs_values)

LastValue == RsValues[Len(RsValues)]

Earlier == 1..(Len(RsValues) - 1)

LastStrictlyHighest == \A i \in Earlier : RLt(RsValues[i], LastValue)

LastStrictlyLowest == \A i \in Earlier : RLt(LastValue, RsValues[i])

\* x is a whole number of hundredths and no hundredth is nearer to
\* 100 * count / total
NearestHundredth(x, count, total) ==
    /\ x.d # 0
    /\ (100 * x.n) % x.d = 0
    /\ 2 * Abs(((100 * x.n) \div x.d) * total - 10000 * count) <= total

\* the percentile of the same sequence with its last value replaced by x
PercentileWithLast(x) ==
    calculate_rs_sts_percentile(Some([RsValues EXCEPT ![Len(RsValues)] = x]))

\* C19: the percentile does not decrease when the last value is raised; it is
\* 100 when the last value is strictly greater than all earlier values, and
\* 1/N*100 rounded to 2 decimals (4.0 for N = 25) when the last value is
\* strictly lower than all earlier values of a sequence of length N.
C19_MonotonicInLast ==
    PercentileOfValues =>
        /\ LastStrictlyHighest => REq(Percentile, RInt(100))
        /\ LastStrictlyLowest =>
              /\ NearestHundredth(Percentile, 1, Len(RsValues))
              /\ Len(RsValues) = DefaultDays => REq(Percentile, RInt(4))
        /\ \A x \in RatioValues :
              /\ RLe(LastValue, x) => RLe(Percentile, PercentileWithLast(x))
              /\ RLe(x, LastValue) => RLe(PercentileWithLast(x), Percentile)

\* 25 values, the last one the lowest: 4.0
C19_Witness ==
    /\ PercentileOfValues
    /\ Len(RsValues) = DefaultDays
    /\ LastStrictlyLowest
    /\ REq(Percentile, RInt(4))

C19_WitnessHighest ==
    /\ PercentileOfValues
    /\ Len(RsValues) = DefaultDays
    /\ LastStrictlyHighest
    /\ REq(Percentile, RInt(100))

\* 1/N*100 does not fall on a hundredth and is rounded up: 16.67 for N = 6,
\* 14.29 for N = 7
C19_WitnessRoundedUp ==
    /\ PercentileOfValues
    /\ Len(RsValues) > 1
    /\ LastStrictlyLowest
    /\ RLt(Rat(100, Len(RsValues)), Percentile)

CountAtMostLast == Cardinality({i \in 1..Len(RsValues) : RLe(RsValues[i], LastValue)})

FlatValues == \A i \in 1..Len(RsValues) : REq(RsValues[i], LastValue)

EmptyOrAbsent ==
    /\ PercentileApplied
    /\ (args.rs_values = None \/ Len(Get(args.rs_values)) = 0)

\* C20 as stated: an empty or absent sequence gives 0; a non-empty sequence
\* of length N gives 100 * count(values <= last value) / N rounded to 2
\* decimals, which lies between 100/N and 100 inclusive, is never 0, and is
\* 100 for a flat sequence.
C20_BetweenShareAndHundred ==
    /\ EmptyOrAbsent => Percentile = RInt(0)
    /\ PercentileOfValues =>
          /\ NearestHundredth(Percentile, CountAtMostLast, Len(RsValues))
          /\ RLe(Rat(100, Len(RsValues)), Percentile)
          /\ RLe(Percentile, RInt(100))
          /\ ~REq(Percentile, RInt(0))
          /\ FlatValues => REq(Percentile, RInt(100))

\* C20 amended: an empty or absent sequence gives 0; a non-empty sequence of
\* length N gives 100 * count(values <= last value) / N rounded to 2
\* decimals, which lies between 100/N rounded to 2 decimals and 100
\* inclusive (so it can be below 100/N by less than 0.005, and is 0 only when
\* N is 20000 or more), and is 100 for a flat sequence.
C20_BetweenRoundedShareAndHundred ==
    /\ EmptyOrAbsent => Percentile = RInt(0)
    /\ PercentileOfValues =>
          /\ NearestHundredth(Percentile, CountAtMostLast, Len(RsValues))
          /\ RLe(calculate_rs_sts_percentile(Some(Falling(Len(RsValues)))), Percentile)
          /\ NearestHundredth(calculate_rs_sts_percentile(Some(Falling(Len(RsValues)))),
                              1, Len(RsValues))
          /\ RLe(Percentile, RInt(100))
          /\ REq(Percentile, RInt(0)) => Len(RsValues) >= 20000
          /\ FlatValues => REq(Percentile, RInt(100))

\* a flat sequence whose equal values are written as different fractions
C20_Witness ==
    /\ PercentileOfValues
    /\ Len(RsValues) > 1
    /\ FlatValues
    /\ \E i \in Earlier : RsValues[i] # LastValue
    /\ REq(Percentile, RInt(100))

C20_WitnessEmpty ==
    /\ EmptyOrAbsent
    /\ args.rs_values # None
    /\ Percentile = RInt(0)

C20_WitnessAbsent ==
    /\ EmptyOrAbsent
    /\ args.rs_values = None
    /\ Percentile = RInt(0)

\* 33.33 for one value of three at most the last one: below 100/3
C20_WitnessBelowShare ==
    /\ PercentileOfValues
    /\ Len(RsValues) = 3
    /\ RLt(Percentile, Rat(100, Len(RsValues)))

C20_WitnessZero ==
    /\ PercentileOfValues
    /\ REq(Percentile, RInt(0))


\* ---------------------------------------------------------------------------
\* C21
\* ---------------------------------------------------------------------------

RsStsApplied == pc = "applied" /\ args.fn = "get_rs_sts_percentile"

RsSts == Get(result)

\* the stored bars inside the 30-day window
Window30(t) == LastN(db.prices[t], 30)

WindowCommon == Dates(Window30(BENCHMARK)) \cap Dates(Window30(args.ticker))

\* the most recent 25 common dates
WindowRetained ==
    {d \in WindowCommon : Cardinality({e \in WindowCommon : e > d}) < 25}

LatestCommon == CHOOSE d \in WindowRetained : \A e \in WindowRetained : e <= d

\* target_close / benchmark_close on date d is at most the one on date e
RatioAtMost(d, e) ==
    CloseOn(Window30(args.ticker), d) * CloseOn(Window30(BENCHMARK), e)
        <= CloseOn(Window30(args.ticker), e) * CloseOn(Window30(BENCHMARK), d)

RsStsAbsentCase ==
    \/ Window30(BENCHMARK) = <<>>
    \/ Window30(args.ticker) = <<>>
    \/ Len(Window30(BENCHMARK)) < 25
    \/ Len(Window30(args.ticker)) < 25
    \/ Cardinality(WindowCommon) < 25
    \/ \E d \in WindowRetained : CloseOn(Window30(BENCHMARK), d) = 0

\* C21: get_rs_sts_percentile is absent exactly when a 30-day series is
\* missing, either has fewer than 25 bars, the two share fewer than 25
\* dates, or a retained joined benchmark close is 0; otherwise it is the
\* share, in percent, of the most recent 25 common dates whose ratio is at
\* most the ratio of the latest one, hence never 0.
C21_RsStsAbsentExactly ==
    RsStsApplied =>
        /\ RsSts = None <=> RsStsAbsentCase
        /\ RsSts # None =>
              /\ REq(Get(RsSts),
                     RInt(4 * Cardinality({d \in WindowRetained :
                                              RatioAtMost(d, LatestCommon)})))
              /\ RLe(RInt(4), Get(RsSts))

\* 25 or more bars each, fewer than 25 common dates: absent
C21_Witness ==
    /\ RsStsApplied
    /\ Len(Window30(BENCHMARK)) >= 25
    /\ Len(Window30(args.ticker)) >= 25
    /\ WindowCommon # {}
    /\ Cardinality(WindowCommon) < 25
    /\ RsSts = None

\* exactly 25 common dates of two longer windows, the latest ratio the lowest
C21_WitnessPresent ==
    /\ RsStsApplied
    /\ Len(Window30(BENCHMARK)) > 25
    /\ Len(Window30(args.ticker)) > 25
    /\ Cardinality(WindowCommon) = 25
    /\ RsSts = Some(RInt(4))

C21_WitnessRetainedZero ==
    /\ RsStsApplied
    /\ Cardinality(WindowCommon) >= 25
    /\ \E d \in WindowRetained : CloseOn(Window30(BENCHMARK), d) = 0
    /\ RsSts = None

\* a zero benchmark close inside the window but older than the retained dates
C21_WitnessOlderZero ==
    /\ RsStsApplied
    /\ Cardinality(WindowCommon) > 25
    /\ \E d \in WindowCommon \ WindowRetained : CloseOn(Window30(BENCHMARK), d) = 0
    /\ RsSts # None


\* ---------------------------------------------------------------------------
\* C22
\* ---------------------------------------------------------------------------

QuadrantApplied == pc = "applied" /\ args.fn = "_get_industry_group_quadrant"

Quadrant == Get(result)

Quadrants == {"Strong", "Improving", "Weakening", "Weak"}

TableRows == IF args.sector_rotation_df = None THEN <<>> ELSE Get(args.sector_rotation_df)

ProfileOf(t) == db.profiles[t]

HasIndustry(t) ==
    /\ ProfileOf(t) # None
    /\ Get(ProfileOf(t)).industry # None
    /\ Get(Get(ProfileOf(t)).industry) # ""

IndustryOf(t) == Get(Get(ProfileOf(t)).industry)

MatchingRows(t) == {i \in 1..Len(TableRows) : TableRows[i].industry = IndustryOf(t)}

\* the first row of the table with the ticker's industry
MatchedRow(t) == TableRows[CHOOSE i \in MatchingRows(t) : \A j \in MatchingRows(t) : i <= j]

\* count(rows.x <= this.x) / N * 100 >= 50 on the weekly axis
WeeklyHigh(t) ==
    2 * Cardinality({i \in 1..Len(TableRows) :
                        TableRows[i].weekly_rs <= MatchedRow(t).weekly_rs})
        >= Len(TableRows)

MonthlyHigh(t) ==
    2 * Cardinality({i \in 1..Len(TableRows) :
                        TableRows[i].monthly_rs <= MatchedRow(t).monthly_rs})
        >= Len(TableRows)

ExpectedQuadrant(t) ==
    CASE WeeklyHigh(t) /\ MonthlyHigh(t) -> "Strong"
      [] WeeklyHigh(t) /\ ~MonthlyHigh(t) -> "Improving"
      [] ~WeeklyHigh(t) /\ MonthlyHigh(t) -> "Weakening"
      [] ~WeeklyHigh(t) /\ ~MonthlyHigh(t) -> "Weak"

\* C22: the quadrant is absent exactly when the rotation table is absent or
\* empty, the ticker has no profile or no industry, or no row has the
\* ticker's industry; otherwise it is exactly one of Strong, Improving,
\* Weakening, Weak, decided by the matched row's percentiles
\* count(rows.x <= this.x)/N*100 against 50 on the weekly and the monthly
\* axis, a percentile of exactly 50 counting as high.
C22_QuadrantExhaustive ==
    QuadrantApplied =>
        /\ Quadrant = None <=>
              \/ Len(TableRows) = 0
              \/ ~HasIndustry(args.ticker)
              \/ MatchingRows(args.ticker) = {}
        /\ Quadrant # None =>
              /\ Get(Quadrant) \in Quadrants
              /\ Get(Quadrant) = ExpectedQuadrant(args.ticker)

\* both percentiles exactly 50: Strong
C22_Witness ==
    /\ QuadrantApplied
    /\ HasIndustry(args.ticker)
    /\ MatchingRows(args.ticker) # {}
    /\ 2 * Cardinality({i \in 1..Len(TableRows) :
                          TableRows[i].weekly_rs <= MatchedRow(args.ticker).weekly_rs})
          = Len(TableRows)
    /\ 2 * Cardinality({i \in 1..Len(TableRows) :
                          TableRows[i].monthly_rs <= MatchedRow(args.ticker).monthly_rs})
          = Len(TableRows)
    /\ Quadrant = Some("Strong")

C22_WitnessImproving == QuadrantApplied /\ Quadrant = Some("Improving")

C22_WitnessWeakening == QuadrantApplied /\ Quadrant = Some("Weakening")

C22_WitnessWeak == QuadrantApplied /\ Quadrant = Some("Weak")

\* the industry differs from a row's only by case: no match
C22_WitnessNoMatch ==
    /\ QuadrantApplied
    /\ Len(TableRows) > 0
    /\ HasIndustry(args.ticker)
    /\ IndustryOf(args.ticker) = "software"
    /\ Quadrant = None


\* ---------------------------------------------------------------------------
\* C23
\* ---------------------------------------------------------------------------

PriceMetricsApplied == pc = "applied" /\ args.fn = "get_price_metrics"

PriceMetrics == Get(result)

\* the stored bars inside the 180-day window
Window180 == LastN(db.prices[args.ticker], 180)

\* c[-k] of the window
CloseBack(k) == FromEnd(Window180, k).close

\* x is ((c[-1] - c[-k]) / c[-k]) * 100
IsChangeAgainst(x, k) ==
    /\ x.d # 0
    /\ x.n * CloseBack(k) = 100 * (CloseBack(1) - CloseBack(k)) * x.d

TrailingOffsets == {21, 63, 126}

TrailingField(m, k) ==
    CASE k = 21 -> m.pct_1m
      [] k = 63 -> m.pct_3m
      [] k = 126 -> m.pct_6m

\* C23: get_price_metrics is absent exactly when the 180-day series is
\* missing or has fewer than 2 bars; when present, the 1-day change is
\* ((c[-1]-c[-2])/c[-2])*100, or 0 when c[-2] is 0, and the 1/3/6-month
\* change is ((c[-1]-c[-k])/c[-k])*100 for k = 21/63/126, absent exactly when
\* the series has fewer than k bars or c[-k] is 0.
C23_PriceMetricsExact ==
    PriceMetricsApplied =>
        /\ PriceMetrics = None <=> Len(Window180) < 2
        /\ PriceMetrics # None =>
              LET m == Get(PriceMetrics)
              IN  /\ IF CloseBack(2) = 0 THEN m.pct_change_1d = RInt(0)
                      ELSE IsChangeAgainst(m.pct_change_1d, 2)
                  /\ \A k \in TrailingOffsets :
                        /\ TrailingField(m, k) = None <=>
                              (Len(Window180) < k \/ CloseBack(k) = 0)
                        /\ TrailingField(m, k) # None =>
                              IsChangeAgainst(Get(TrailingField(m, k)), k)

\* exactly 21 bars: 1-month change present, 3- and 6-month changes absent
C23_Witness ==
    /\ PriceMetricsApplied
    /\ Len(Window180) = 21
    /\ PriceMetrics # None
    /\ Get(PriceMetrics).pct_1m # None
    /\ Get(PriceMetrics).pct_3m = None
    /\ Get(PriceMetrics).pct_6m = None

\* enough bars but a zero anchor close: that change alone is absent
C23_WitnessZeroAnchor ==
    /\ PriceMetricsApplied
    /\ Len(Window180) >= 126
    /\ CloseBack(63) = 0
    /\ PriceMetrics # None
    /\ Get(PriceMetrics).pct_1m # None
    /\ Get(PriceMetrics).pct_3m = None
    /\ Get(PriceMetrics).pct_6m # None

C23_WitnessZeroPrevious ==
    /\ PriceMetricsApplied
    /\ Len(Window180) >= 2
    /\ CloseBack(2) = 0
    /\ PriceMetrics # None
    /\ Get(PriceMetrics).pct_change_1d = RInt(0)

C23_WitnessOneBar ==
    /\ PriceMetricsApplied
    /\ Len(Window180) = 1
    /\ PriceMetrics = None


\* ---------------------------------------------------------------------------
\* C24
\* ---------------------------------------------------------------------------

RsStsScreeners == {"screener_explosive_eps_growth", "screener_up_on_volume",
                   "screener_top_2_percent_rs", "screener_4_percent_bullish_yesterday"}

BenchmarkFreeScreeners == {"screener_momentum_97", "screener_healthy_chart_watchlist"}

\* the benchmark is missing or has fewer than 25 bars in the 30-day window
BenchmarkShort == Len(LastN(db.prices[BENCHMARK], 30)) < 25

\* the store with the benchmark series taken out
BenchmarkErased == [db EXCEPT !.prices[BENCHMARK] = <<>>]

RankedOn(d, t) ==
    /\ Len(d.prices[t]) >= 126
    /\ \A k \in MomentumAnchors : FromEnd(d.prices[t], k).close # 0

PosOn(d, t) == CHOOSE k \in 1..Len(d.tickers) : d.tickers[k] = t

\* rank_index + 1 of t in the ascending stable sort of the k-bar change,
\* read from store d
RankPositionOn(d, t, k) ==
    LET ranked == {u \in Range(d.tickers) : RankedOn(d, u)}
        last(u) == FromEnd(d.prices[u], 1).close
        anchor(u) == FromEnd(d.prices[u], k).close
    IN  Cardinality({u \in ranked : last(u) * anchor(t) < last(t) * anchor(u)})
        + Cardinality({u \in ranked : /\ last(u) * anchor(t) = last(t) * anchor(u)
                                      /\ PosOn(d, u) <= PosOn(d, t)})

MomentumQualifiesOn(d, t) ==
    /\ RankedOn(d, t)
    /\ \A k \in MomentumAnchors :
          100 * RankPositionOn(d, t, k)
              >= 97 * Cardinality({u \in Range(d.tickers) : RankedOn(d, u)})

SumLast(d, t, column, k) ==
    SumRange(Column(d.prices[t], column), Len(d.prices[t]) - k + 1, Len(d.prices[t]))

HealthyOn(d, t) ==
    LET hits == SelectSeq(d.ratings, LAMBDA r : r.ticker = t)
        above(a, b) == SumLast(d, t, "close", a) * b > SumLast(d, t, "close", b) * a
    IN  /\ hits # <<>>
        /\ hits[1].rs_rating # None /\ Get(hits[1].rs_rating) >= 90
        /\ hits[1].comp_rating # None /\ Get(hits[1].comp_rating) >= 80
        /\ hits[1].ad_rating \in {Some("A"), Some("B")}
        /\ Len(d.prices[t]) >= 200
        /\ above(10, 21) /\ above(21, 50) /\ above(50, 150) /\ above(150, 200)
        /\ hits[1].price_vs_52w_high # None
        /\ Get(hits[1].price_vs_52w_high) >= -5
        /\ SumLast(d, t, "volume", 50) >= 50 * 100 * 1000

\* the result of a screener without rsSTS% predicate, read from store d
BenchmarkFreeResult(d, s) ==
    IF s = "screener_momentum_97"
    THEN SelectSeq(d.tickers, LAMBDA t : MomentumQualifiesOn(d, t))
    ELSE LET kept == SelectSeq(d.ratings, LAMBDA r : HealthyOn(d, r.ticker))
         IN  [k \in 1..Len(kept) |-> kept[k].ticker]

\* what a finished screener s handed back as value
BenchmarkRule(d, s, value) ==
    /\ (s \in RsStsScreeners /\ BenchmarkShort) => value = <<>>
    /\ s \in BenchmarkFreeScreeners => value = BenchmarkFreeResult(d, s)

\* C24: with the benchmark missing or shorter than 25 bars in its 30-day
\* window, Explosive EPS Growth, Up on Volume, Top 2% RS and 4% Bullish
\* Yesterday return the empty list; Momentum 97 and Healthy Chart Watchlist
\* return what they return on the same store without any benchmark series,
\* whatever the benchmark is; and run_all_screeners still collects the
\* results of all six screeners.
C24_BenchmarkShortEmptiesRsScreeners ==
    /\ returned.kind = "list" => BenchmarkRule(BenchmarkErased, op, returned.value)
    /\ \A k \in 1..Len(screener_results) :
          BenchmarkRule(BenchmarkErased, screener_results[k].name,
                        screener_results[k].value)
    /\ (op = "run_all" /\ pc = "write") =>
          /\ Len(screener_results) = 6
          /\ {screener_results[k].name : k \in 1..6}
                = RsStsScreeners \cup BenchmarkFreeScreeners

\* a bulk run on a store without usable benchmark whose first ticker meets
\* every threshold: six results, the four rsSTS% ones empty, the others not
C24_Witness ==
    /\ op = "run_all"
    /\ pc = "write"
    /\ BenchmarkShort
    /\ Len(screener_results) = 6
    /\ \A k \in 1..Len(screener_results) :
          IF screener_results[k].name \in RsStsScreeners
          THEN screener_results[k].value = <<>>
          ELSE screener_results[k].value # <<>>

\* the same with 24 stored benchmark bars
C24_WitnessTooShort ==
    /\ op = "run_all"
    /\ pc = "write"
    /\ Len(db.prices[BENCHMARK]) = 24
    /\ \E k \in 1..Len(screener_results) : screener_results[k].value # <<>>

\* a benchmark of 25 bars: an rsSTS% screener returns a ticker
C24_WitnessEnough ==
    /\ returned.kind = "list"
    /\ op \in RsStsScreeners
    /\ Len(db.prices[BENCHMARK]) = 25
    /\ returned.value # <<>>


\* ---------------------------------------------------------------------------
\* C25
\* ---------------------------------------------------------------------------

MomentumApplied == pc = "applied" /\ args.fn = "screener_momentum_97"

MomentumResult == Get(result)

\* N: the tickers having all three metrics
Population == Len(args.performance_data)

\* ceil(0.97 * n)
Ceil97(n) == (97 * n + 99) \div 100

PerformanceMetrics == {"m1", "m3", "m6"}

\* the entry of ticker t is the last one in the ascending stable sort by key
RankedLast(t, key) ==
    LET data == args.performance_data
        at == CHOOSE k \in 1..Len(data) : data[k].ticker = t
    IN  \A k \in 1..Len(data) :
            k # at => \/ RLt(data[k][key], data[at][key])
                      \/ (REq(data[k][key], data[at][key]) /\ k < at)

\* C25: with N tickers having all three metrics Momentum 97 returns at most
\* N - ceil(0.97*N) + 1 distinct tickers; for N < 34 that is at most one, the
\* ticker ranked last in the ascending sort of all three metrics; for N = 0
\* the result is empty.
C25_ResultSizeBounded ==
    MomentumApplied =>
        /\ NoDuplicates(MomentumResult)
        /\ Population = 0 => MomentumResult = <<>>
        /\ Population > 0 =>
              Len(MomentumResult) <= Population - Ceil97(Population) + 1
        /\ Population < 34 =>
              /\ Len(MomentumResult) <= 1
              /\ \A t \in Range(MomentumResult) :
                    \A key \in PerformanceMetrics : RankedLast(t, key)

\* 34 ranked tickers in the same order on every metric: two are returned
C25_Witness ==
    /\ MomentumApplied
    /\ Population = 34
    /\ Len(MomentumResult) = 2

\* 33 ranked tickers: the single strongest one
C25_WitnessOne ==
    /\ MomentumApplied
    /\ Population = 33
    /\ Len(MomentumResult) = 1

\* the strongest ticker on two metrics is second on the third: below the bound
C25_WitnessBelowBound ==
    /\ MomentumApplied
    /\ Population = 33
    /\ \E k \in 1..Population :
          ~REq(args.performance_data[k].m1, args.performance_data[k].m6)
    /\ MomentumResult = <<>>


-----------------------------------------------------------------------------
(* _retry_api_call: one action per iteration of its loop, the call of func  *)
(* and the handling of what it raised.                                      *)

MaxRetries == 4

MaxInitialDelay == 3

RetryArgs(max_retries, initial_delay) ==
    [fn |-> "_retry_api_call", max_retries |-> max_retries,
     initial_delay |-> initial_delay]

\* what a call of func does: it returns, or raises an exception that is a
\* gspread APIError or not and whose text contains '429' or not
Returns == [ok |-> TRUE, api |-> FALSE, has429 |-> FALSE]

Raises == [ok : {FALSE}, api : BOOLEAN, has429 : BOOLEAN]

FuncCall(outcome) == [what |-> "func", outcome |-> outcome, seconds |-> 0]

Sleep(seconds) == [what |-> "sleep", outcome |-> Returns, seconds |-> seconds]

\* mutant: any exception with '429' in its text is retried
should_retry_any_exception(e, k, max_retries) == e.has429 /\ k < max_retries - 1

\* `except APIError as e` with `'429' in str(e) and attempt < max_retries - 1`
should_retry(e, k, max_retries) == e.api /\ e.has429 /\ k < max_retries - 1

InitRetry ==
    /\ db = MkDb([t \in Range(Universe) |-> Bare], None, Universe)
    /\ debug_mode = FALSE
    /\ pc = "retry"
    /\ op = "none"
    /\ todo = <<>>
    /\ iter = <<>>
    /\ idx = 0
    /\ passed = <<>>
    /\ performance_data = <<>>
    /\ ranks = NoRanks
    /\ screener_results = <<>>
    /\ returned = Pending
    /\ calls = <<>>
    /\ db_failed = FALSE
    /\ upstream = "untouched"
    /\ first_result = None
    /\ args \in { RetryArgs(m, d) : m \in 1..MaxRetries, d \in 1..MaxInitialDelay }
    /\ result = None
    /\ attempt = 0
    /\ delay = args.initial_delay

RetryUnchanged ==
    UNCHANGED <<debug_mode, args, db, op, todo, iter, idx, passed, performance_data,
                ranks, screener_results, returned, db_failed, upstream, first_result>>

\* return func()
RetryReturn ==
    /\ pc = "retry"
    /\ attempt < args.max_retries
    /\ calls' = Append(calls, FuncCall(Returns))
    /\ result' = Some([kind |-> "returned", error |-> Returns])
    /\ pc' = "done"
    /\ UNCHANGED <<attempt, delay>>
    /\ RetryUnchanged

\* func raised e, a rate limit error with attempts left: sleep, double the
\* delay, next iteration
RetrySleep(e) ==
    /\ pc = "retry"
    /\ attempt < args.max_retries
    /\ should_retry(e, attempt, args.max_retries)
    /\ calls' = calls \o <<FuncCall(e), Sleep(delay)>>
    /\ delay' = delay * 2
    /\ attempt' = attempt + 1
    /\ UNCHANGED <<pc, result>>
    /\ RetryUnchanged

\* func raised e and e leaves _retry_api_call: the bare `raise`, or an
\* exception the except clause does not catch
RetryReraise(e) ==
    /\ pc = "retry"
    /\ attempt < args.max_retries
    /\ ~should_retry(e, attempt, args.max_retries)
    /\ calls' = Append(calls, FuncCall(e))
    /\ result' = Some([kind |-> "raised", error |-> e])
    /\ pc' = "done"
    /\ UNCHANGED <<attempt, delay>>
    /\ RetryUnchanged

NextRetry ==
    \/ RetryReturn
    \/ \E e \in Raises : RetrySleep(e)
    \/ \E e \in Raises : RetryReraise(e)

\* func and time.sleep come back, so the loop goes on until it leaves
SpecRetry == InitRetry /\ [][NextRetry]_vars /\ WF_vars(NextRetry)

\* ---------------------------------------------------------------------------
\* C26
\* ---------------------------------------------------------------------------

FuncCalls == SelectSeq(calls, LAMBDA c : c.what = "func")

Sleeps == SelectSeq(calls, LAMBDA c : c.what = "sleep")

RECURSIVE Pow2(_)
Pow2(k) == IF k = 0 THEN 1 ELSE 2 * Pow2(k - 1)

RateLimited(outcome) == ~outcome.ok /\ outcome.api /\ outcome.has429

\* calls of func and sleeps alternate, a sleep follows exactly the calls that
\* raised a rate limit error, and the i-th sleep lasts initial_delay * 2^(i-1)
RetryLogShape ==
    /\ \A k \in 1..Len(calls) :
          calls[k].what = IF k % 2 = 1 THEN "func" ELSE "sleep"
    /\ \A k \in 1..Len(calls) :
          (calls[k].what = "func" /\ k < Len(calls)) => RateLimited(calls[k].outcome)
    /\ \A i \in 1..Len(Sleeps) :
          Sleeps[i].seconds = args.initial_delay * Pow2(i - 1)
    /\ Len(Sleeps) = attempt
    /\ attempt < args.max_retries

RetryBounds ==
    /\ Len(FuncCalls) <= args.max_retries
    /\ Len(Sleeps) <= args.max_retries - 1

\* how the execution ended, against the last call of func
RetryOutcome ==
    /\ pc = "retry" =>
          /\ result = None
          /\ calls # <<>> => calls[Len(calls)].what = "sleep"
    /\ pc = "done" =>
          /\ result # None
          /\ calls # <<>>
          /\ calls[Len(calls)].what = "func"
          /\ LET last == calls[Len(calls)].outcome
             IN  /\ Get(result).kind = "returned" <=> last.ok
                 /\ Get(result).kind = "raised" <=> ~last.ok
                 /\ Get(result).error = last
                 /\ RateLimited(last) => Len(FuncCalls) = args.max_retries

RetryInvariant == RetryLogShape /\ RetryBounds /\ RetryOutcome

C26_WitnessLastAttempt ==
    /\ pc = "done"
    /\ args.max_retries > 1
    /\ Len(FuncCalls) = args.max_retries
    /\ Get(result).kind = "raised"
    /\ RateLimited(Get(result).error)

\* an exception that is no APIError but mentions 429 is not retried
C26_WitnessOtherException ==
    /\ pc = "done"
    /\ args.max_retries > 1
    /\ Len(FuncCalls) = 1
    /\ Get(result).kind = "raised"
    /\ ~Get(result).error.api
    /\ Get(result).error.has429


=============================================================================
